---- MODULE Spec2Model ----
(***************************************************************************)
(* Model of the update-distribution engine of paragon-os-ui:               *)
(*   - StreamingStore            (lib/streaming-store.ts)                  *)
(*   - Update Ingress  POST      (app/api/stream/update/route.ts)          *)
(*   - Update Egress   GET (SSE) (app/api/stream/sse/[executionId])        *)
(* The Node.js runtime is single-threaded: a handler that does not await   *)
(* runs to completion, so each handler below is one atomic action.         *)
(***************************************************************************)
EXTENDS Integers, Sequences, FiniteSets, TLC

VARIABLES
    connections,        \* Map executionId -> Set<SSEConnection>
    updateHistory,      \* Map executionId -> StreamUpdate[]
    executionMetadata,  \* Map executionId -> ExecutionMetadata
    now,                \* Date.now()
    connState,          \* per SSE request: "new" | "attached" | "aborted"
    connKey,            \* the executionId the SSE request resolved to
    sink,               \* data frames enqueued on the request's stream controller
    sinkClosed,         \* the controller no longer accepts enqueue (it throws)
    keepAlive,          \* the request's keep-alive interval is running
    request,            \* the last ingress request handled
    response,           \* the answer it got
    accepted,           \* history variable: every update handed to addUpdate, in order
    attachedAt,         \* history variable: Len(accepted) when the request attached
    baseAt,             \* history variable: Len(accepted) when the key was last removed
    expectedReplay,     \* history variable: the replay the log prescribes at attach
    ticks,              \* number of clock steps taken
    \* StreamingClient (lib/n8n-client/streaming.ts)
    ws,                 \* this.ws: the transport it refers to, 0 for null
    eventSource,        \* this.eventSource: the transport it refers to, 0 for null
    connectionType,     \* "websocket" | "sse"
    subscriptions,      \* Map executionId -> callbacks
    reconnectAttempts,
    isConnecting,
    isConnected,
    transports,         \* every WebSocket / EventSource constructed so far
    timers,             \* the delays of the pending reconnect timeouts
    invoked,            \* the callbacks the last received update invoked, in order
    received,           \* history variable: number of updates handed to handleUpdate
    failures,           \* history variable: failed attempts since the last success
    notified,           \* history variable: executions whose onComplete/onError ran
    disconnected,       \* history variable: disconnect() was called, and neither
                        \* subscribe() nor connect() since
    dispatched,         \* history variable: per execution, the callbacks invoked
                        \* since it was last subscribed
    \* callWebhook and pollExecutionStatus
    call,               \* the callWebhook invocation: position, events, Result
    poll,               \* the pollExecutionStatus invocation
    clock,              \* Date.now() of the process that runs them
    held,               \* the array the last getHistory call returned to its caller
    lookup              \* the findExecutionViaApi invocation

serverVars == <<connections, updateHistory, executionMetadata, now, connState, connKey,
                sink, sinkClosed, keepAlive, request, response, accepted,
                attachedAt, baseAt, expectedReplay, ticks>>

clientVars == <<ws, eventSource, connectionType, subscriptions, reconnectAttempts,
                isConnecting, isConnected, transports, timers, invoked, received,
                failures, notified, disconnected, dispatched>>

callVars == <<call, poll, clock, held, lookup>>

vars == <<serverVars, clientVars, callVars>>

----------------------------------------------------------------------------
(* Bounds of the model *)

MaxUpdates == 3
MaxSweepUpdates == 2
MaxLifeUpdates == 1
MaxIdles == 1
MaxTicks == 2
MaxCapUpdates == 102
MaxTransports == 3
MaxMessages == 2
MaxFailures == 3
MaxNotifyUpdates == 2
MaxReadUpdates == 2
MaxListing == 2
MaxStoreUpdates == 1

(* Program constants *)

MAX_HISTORY == 100
DEFAULT_POLL_INTERVAL == 500
SYNC_RESPONSE_THRESHOLD_MS == 5000
COMPLETED_EXECUTION_TTL_MS == 60 * 60 * 1000
ACTIVE_EXECUTION_TTL_MS == 24 * 60 * 60 * 1000

----------------------------------------------------------------------------
(* Maps (JavaScript Map) as functions with a finite domain *)

EmptyMap == << >>
Has(m, k) == k \in DOMAIN m
Put(m, k, v) == [x \in (DOMAIN m) \cup {k} |-> IF x = k THEN v ELSE m[x]]
Del(m, k) == [x \in (DOMAIN m) \ {k} |-> m[x]]

----------------------------------------------------------------------------
(* JSON / JavaScript values that reach the ingress handler *)

Undefined == [t |-> "undefined", s |-> "", n |-> 0]
Null == [t |-> "null", s |-> "", n |-> 0]
JStr(x) == [t |-> "string", s |-> x, n |-> 0]
JNum(k) == [t |-> "number", s |-> "", n |-> k]

\* JavaScript truthiness, as used by || and if (...)
Truthy(v) ==
    CASE v.t = "undefined" -> FALSE
      [] v.t = "null" -> FALSE
      [] v.t = "string" -> v.s # ""
      [] v.t = "number" -> v.n # 0
      [] OTHER -> TRUE

Digit == <<"0", "1", "2", "3", "4", "5", "6", "7", "8", "9">>

RECURSIVE NatToString(_)
NatToString(k) ==
    IF k < 10 THEN Digit[k + 1] ELSE NatToString(k \div 10) \o Digit[(k % 10) + 1]

\* String(v) for the values above
JsString(v) ==
    CASE v.t = "string" -> v.s
      [] v.t = "number" -> NatToString(v.n)
      [] v.t = "null" -> "null"
      [] OTHER -> "undefined"

\* a || b
OrElse(a, b) == IF Truthy(a) THEN a ELSE b

\* new Date().toISOString(): a string that carries the receipt time
IsoString(time) == [t |-> "string", s |-> "ISO", n |-> time]

----------------------------------------------------------------------------
(* StreamUpdate, and the frames written to an SSE stream *)

\* seq is a history field: the arrival number of the update at the Store. It
\* stands for the identity of the payload and is read by no handler.
StreamUpdate(executionId, stage, status, message, timestamp, data, seq) ==
    [executionId |-> executionId, stage |-> stage, status |-> status,
     message |-> message, timestamp |-> timestamp, data |-> data, seq |-> seq]

EmptyObject == [kind |-> "object", executionId |-> Undefined]

NoUpdate == StreamUpdate("", Undefined, Undefined, Undefined, Undefined, EmptyObject, 0)

\* data: {"type":"connected","executionId":...}
ConnectedFrame(executionId) ==
    [type |-> "connected", executionId |-> executionId, update |-> NoUpdate]

\* data: JSON.stringify(update)
UpdateFrame(update) ==
    [type |-> "update", executionId |-> update.executionId, update |-> update]

RECURSIVE Frames(_)
Frames(history) ==
    IF history = << >> THEN << >>
    ELSE <<UpdateFrame(Head(history))>> \o Frames(Tail(history))

IsTerminal(status) == status = JStr("completed") \/ status = JStr("error")

----------------------------------------------------------------------------
(* StreamingStore. A store value S holds the three maps; every method is an *)
(* operator from the store before to the store after.                       *)

Store == [connections |-> connections, updateHistory |-> updateHistory,
          executionMetadata |-> executionMetadata]

NoTime == 0

getOrCreateMetadata(S, executionId, time) ==
    IF Has(S.executionMetadata, executionId) THEN S
    ELSE [S EXCEPT !.executionMetadata =
            Put(@, executionId,
                [lastAccessTime |-> time, lastUpdateTime |-> time,
                 isCompleted |-> FALSE, completedAt |-> NoTime])]

markExecutionCompleted(S, executionId, time) ==
    LET S1 == getOrCreateMetadata(S, executionId, time)
    IN [S1 EXCEPT !.executionMetadata[executionId] =
            [@ EXCEPT !.isCompleted = TRUE, !.completedAt = time,
                      !.lastAccessTime = time]]

removeMetadataOnly(S, executionId) ==
    [S EXCEPT !.executionMetadata = Del(@, executionId)]

removeExecution(S, executionId) ==
    [connections |-> Del(S.connections, executionId),
     updateHistory |-> Del(S.updateHistory, executionId),
     executionMetadata |-> Del(S.executionMetadata, executionId)]

hasConnections(S, executionId) ==
    Has(S.connections, executionId) /\ Cardinality(S.connections[executionId]) > 0

shouldRemoveByAge(S, executionId, time) ==
    LET metadata == S.executionMetadata[executionId]
    IN IF metadata.isCompleted /\ metadata.completedAt # NoTime
       THEN time - metadata.completedAt > COMPLETED_EXECUTION_TTL_MS
       ELSE time - metadata.lastAccessTime > ACTIVE_EXECUTION_TTL_MS

\* the body of performCleanup's loop: does this pass remove executionId?
shouldRemove(S, executionId, time) ==
    LET metadata == S.executionMetadata[executionId]
        age == time - metadata.lastAccessTime
        updateAge == time - metadata.lastUpdateTime
    IN \/ IF metadata.isCompleted /\ metadata.completedAt # NoTime
          THEN time - metadata.completedAt > COMPLETED_EXECUTION_TTL_MS
          ELSE age > ACTIVE_EXECUTION_TTL_MS
       \/ ~hasConnections(S, executionId) /\ updateAge > COMPLETED_EXECUTION_TTL_MS

executionsToRemove(S, time) ==
    {e \in DOMAIN S.executionMetadata : shouldRemove(S, e, time)}

performCleanup(S, time) ==
    LET gone == executionsToRemove(S, time)
    IN [connections |-> [e \in (DOMAIN S.connections) \ gone |-> S.connections[e]],
        updateHistory |-> [e \in (DOMAIN S.updateHistory) \ gone |-> S.updateHistory[e]],
        executionMetadata |->
            [e \in (DOMAIN S.executionMetadata) \ gone |-> S.executionMetadata[e]]]

\* Array.from(this.updateHistory.keys()), as a set
getTrackedExecutions(S) == DOMAIN S.updateHistory

\* the part of getStats() that the health endpoint returns
getStats(S) ==
    [activeConnections |-> Cardinality(UNION {S.connections[e] : e \in DOMAIN S.connections}),
     trackedExecutions |-> Cardinality(DOMAIN S.updateHistory),
     executionIds |-> getTrackedExecutions(S)]

addConnection(S, executionId, connection, time) ==
    LET S1 == [S EXCEPT !.connections =
                 Put(@, executionId,
                     (IF Has(@, executionId) THEN @[executionId] ELSE {})
                        \cup {connection})]
        S2 == getOrCreateMetadata(S1, executionId, time)
    IN [S2 EXCEPT !.executionMetadata[executionId].lastAccessTime = time]

removeFromDefault(S, executionId, connection) ==
    IF ~Has(S.connections, "default") THEN S
    ELSE LET rest == S.connections["default"] \ {connection}
         IN IF rest = {}
            THEN [S EXCEPT !.connections = Del(@, "default")]
            ELSE [S EXCEPT !.connections["default"] = rest]

removeConnection(S, executionId, connection) ==
    IF ~Has(S.connections, executionId) THEN S
    ELSE LET rest == S.connections[executionId] \ {connection}
         IN IF rest = {}
            THEN [S EXCEPT !.connections = Del(@, executionId)]
            ELSE [S EXCEPT !.connections[executionId] = rest]

getConnections(S, executionId) ==
    IF Has(S.connections, executionId) THEN S.connections[executionId] ELSE {}

pushUncapped(history, update) == Append(history, update)

pushFront(history, update) ==
    LET pushed == <<update>> \o history
    IN IF Len(pushed) > MAX_HISTORY THEN Tail(pushed) ELSE pushed

\* history.push(update); if (history.length > MAX_HISTORY) history.shift()
pushCapped(history, update) ==
    LET pushed == Append(history, update)
    IN IF Len(pushed) > MAX_HISTORY THEN Tail(pushed) ELSE pushed

marksAnyTerminal(update, metadata) == IsTerminal(update.status)

\* status is "completed" or "error", and the execution is not yet marked
marksCompleted(update, metadata) ==
    IsTerminal(update.status) /\ ~metadata.isCompleted

addUpdate(S, update, time) ==
    LET executionId == update.executionId
        old == IF Has(S.updateHistory, executionId)
               THEN S.updateHistory[executionId] ELSE << >>
        S1 == [S EXCEPT !.updateHistory = Put(@, executionId, pushCapped(old, update))]
        S2 == getOrCreateMetadata(S1, executionId, time)
        S3 == [S2 EXCEPT !.executionMetadata[executionId] =
                 [@ EXCEPT !.lastUpdateTime = time, !.lastAccessTime = time]]
    IN IF marksCompleted(update, S3.executionMetadata[executionId])
       THEN markExecutionCompleted(S3, executionId, time)
       ELSE S3

\* getHistory: the store after the read (lastAccessTime refreshed) ...
getHistory(S, executionId, time) ==
    IF Has(S.executionMetadata, executionId)
    THEN [S EXCEPT !.executionMetadata[executionId].lastAccessTime = time]
    ELSE S

\* ... and the array it returns
historyOf(S, executionId) ==
    IF Has(S.updateHistory, executionId) THEN S.updateHistory[executionId] ELSE << >>

\* the sinks broadcast(update) writes to
allConnections(S, update) ==
    getConnections(S, update.executionId) \cup getConnections(S, "default")

\* controller.enqueue inside try/catch: a closed controller throws, the catch
\* logs, and the frame is lost for that sink only
enqueueOrSkip(frames, closed, frame) ==
    IF closed THEN frames ELSE Append(frames, frame)

broadcastUnguarded(S, update, sinks, closed) ==
    IF \E c \in allConnections(S, update) : closed[c] THEN sinks
    ELSE [c \in DOMAIN sinks |->
            IF c \in allConnections(S, update)
            THEN Append(sinks[c], UpdateFrame(update))
            ELSE sinks[c]]

broadcast(S, update, sinks, closed) ==
    [c \in DOMAIN sinks |->
        IF c \in allConnections(S, update)
        THEN enqueueOrSkip(sinks[c], closed[c], UpdateFrame(update))
        ELSE sinks[c]]

----------------------------------------------------------------------------
(* Update Ingress: POST /api/stream/update *)

\* body.kind: what request.json() yields: "object", "array", "primitive" (a
\* number, string or boolean), "null", or "invalid" (the text is no JSON and
\* request.json() rejects). data.kind: "undefined", "null" or "object".
Body(kind, executionId, data, status) ==
    [kind |-> kind, executionId |-> executionId, data |-> data, status |-> status,
     stage |-> Undefined, message |-> Undefined, timestamp |-> Undefined]

Data(kind, executionId) == [kind |-> kind, executionId |-> executionId]

\* headers: <<x-execution-id, execution-id, x-n8n-execution-id>>, each null or a string
Request(originAllowed, body, query, headers) ==
    [originAllowed |-> originAllowed, body |-> body, query |-> query,
     headers |-> headers]

\* body.<field>: a property read on an array or a primitive gives undefined
Field(body, v) == IF body.kind = "object" THEN v ELSE Undefined

\* body.data: only an object is truthy and has properties
dataOf(body) == IF body.kind = "object" THEN body.data ELSE Data("undefined", Undefined)

\* steps 1 and 2: body.executionId, else body.data.executionId
fromBody(body) ==
    LET top == Field(body, body.executionId)
        data == dataOf(body)
    IN IF top = Undefined /\ data.kind = "object" /\ data.executionId # Undefined
       THEN data.executionId
       ELSE top

\* step 3: the executionId query parameter, used when it is truthy
fromQuery(executionId, query) ==
    IF executionId = Undefined /\ Truthy(query) THEN query ELSE executionId

\* step 4: h1 || h2 || h3, used when it is truthy
fromHeaders(executionId, headers) ==
    LET headerExecutionId == OrElse(headers[1], OrElse(headers[2], headers[3]))
    IN IF executionId = Undefined /\ Truthy(headerExecutionId)
       THEN headerExecutionId
       ELSE executionId

coerceTruthy(executionId) ==
    IF Truthy(executionId) THEN JStr(JsString(executionId)) ELSE executionId

\* String(executionId) unless it is undefined or null
coerce(executionId) ==
    IF executionId # Undefined /\ executionId # Null
    THEN JStr(JsString(executionId))
    ELSE executionId

resolveExecutionId(req) ==
    coerce(fromHeaders(fromQuery(fromBody(req.body), req.query), req.headers))

isMissing(executionId) ==
    executionId = Undefined \/ executionId = Null \/ executionId = JStr("")

createUpdate(req, executionId, time, seq) ==
    LET body == req.body
        data == dataOf(body)
    IN StreamUpdate(executionId.s,
                    OrElse(Field(body, body.stage), JStr("unknown")),
                    OrElse(Field(body, body.status), JStr("info")),
                    OrElse(Field(body, body.message), JStr("")),
                    OrElse(Field(body, body.timestamp), IsoString(time)),
                    IF data.kind = "object" THEN data ELSE EmptyObject,
                    seq)

NoResponse == [status |-> 0, success |-> FALSE, executionId |-> ""]
Response(status, success, executionId) ==
    [status |-> status, success |-> success, executionId |-> executionId]

\* the HTTP status the handler answers with
postStatus(req) ==
    IF ~req.originAllowed THEN 403
    ELSE IF req.body.kind = "invalid" THEN 500    \* request.json() rejects
    ELSE IF req.body.kind = "null" THEN 500       \* TypeError: body.executionId of null
    ELSE IF isMissing(resolveExecutionId(req)) THEN 400
    ELSE 200

POST(req) ==
    LET status == postStatus(req)
        executionId == resolveExecutionId(req)
        update == createUpdate(req, executionId, now, Len(accepted) + 1)
        S1 == addUpdate(Store, update, now)
    IN /\ request' = req
       /\ IF status = 200
          THEN /\ connections' = S1.connections
               /\ updateHistory' = S1.updateHistory
               /\ executionMetadata' = S1.executionMetadata
               /\ sink' = broadcast(S1, update, sink, sinkClosed)
               /\ accepted' = Append(accepted, update)
               /\ response' = Response(200, TRUE, update.executionId)
          ELSE /\ UNCHANGED <<connections, updateHistory, executionMetadata, sink,
                              accepted>>
               /\ response' = Response(status, FALSE, "")
       /\ UNCHANGED <<now, connState, connKey, sinkClosed, keepAlive, attachedAt, baseAt, expectedReplay, ticks>>
       /\ UNCHANGED <<clientVars, callVars>>

----------------------------------------------------------------------------
(* History variables: what the log of accepted updates prescribes *)

RECURSIVE LastN(_, _)
LastN(q, k) == IF Len(q) > k THEN LastN(Tail(q), k) ELSE q

RECURSIVE ForKeys(_, _)
ForKeys(q, keys) ==
    IF q = << >> THEN << >>
    ELSE IF Head(q).executionId \in keys
         THEN <<Head(q)>> \o ForKeys(Tail(q), keys)
         ELSE ForKeys(Tail(q), keys)

BaseOf(executionId) == IF Has(baseAt, executionId) THEN baseAt[executionId] ELSE 0

\* the updates accepted for executionId since its entry was last removed
LoggedSince(executionId) ==
    ForKeys(SubSeq(accepted, BaseOf(executionId) + 1, Len(accepted)), {executionId})

LoggedHistory(executionId) == LastN(LoggedSince(executionId), MAX_HISTORY)

----------------------------------------------------------------------------
(* Update Egress: GET /api/stream/sse/[executionId] *)

Connections == {"c1", "c2"}

replayDefaultFirst(S, executionId) ==
    (IF executionId # "default" THEN Frames(historyOf(S, "default")) ELSE << >>)
        \o Frames(historyOf(S, executionId))

\* the history frames start() enqueues after the connected marker
replay(S, executionId) ==
    Frames(historyOf(S, executionId))
        \o (IF executionId # "default" THEN Frames(historyOf(S, "default")) ELSE << >>)

\* start(controller): runs synchronously when the stream is constructed
GET(c, paramExecutionId) ==
    LET executionId == IF paramExecutionId # "" THEN paramExecutionId ELSE "default"
        S1 == addConnection(Store, executionId, c, now)
        S2 == getHistory(S1, executionId, now)
        S3 == IF executionId # "default" THEN getHistory(S2, "default", now) ELSE S2
    IN /\ connState[c] = "new"
       /\ connections' = S3.connections
       /\ updateHistory' = S3.updateHistory
       /\ executionMetadata' = S3.executionMetadata
       /\ connState' = [connState EXCEPT ![c] = "attached"]
       /\ connKey' = [connKey EXCEPT ![c] = executionId]
       /\ sink' = [sink EXCEPT ![c] = <<ConnectedFrame(executionId)>>
                                        \o replay(S1, executionId)]
       /\ keepAlive' = [keepAlive EXCEPT ![c] = TRUE]
       /\ attachedAt' = [attachedAt EXCEPT ![c] = Len(accepted)]
       /\ expectedReplay' = [expectedReplay EXCEPT ![c] =
             LoggedHistory(executionId)
                \o (IF executionId # "default" THEN LoggedHistory("default") ELSE << >>)]
       /\ UNCHANGED <<now, sinkClosed, request, response, accepted, baseAt, ticks>>
       /\ UNCHANGED <<clientVars, callVars>>

\* no array returned yet
NoArray == [executionId |-> "", stored |-> FALSE, base |-> 0, returned |-> << >>]

\* streamingStore.getHistory(executionId) called on its own. The caller is
\* handed this.updateHistory.get(executionId) itself (stored: it is the array
\* in the map, the one created after the base-th accepted update) or a fresh
\* []; returned: its elements at the return
GetHistory(executionId) ==
    LET S1 == getHistory(Store, executionId, now)
    IN /\ executionMetadata' = S1.executionMetadata
       /\ held' = [executionId |-> executionId,
                   stored |-> Has(updateHistory, executionId),
                   base |-> BaseOf(executionId),
                   returned |-> historyOf(Store, executionId)]
       /\ UNCHANGED <<connections, updateHistory, now, connState, connKey, sink,
                      sinkClosed, keepAlive, request, response, accepted,
                      attachedAt, baseAt, expectedReplay, ticks>>
       /\ UNCHANGED <<clientVars, call, poll, clock, lookup>>

\* streamingStore.markCompleted(executionId)
MarkCompleted(executionId) ==
    LET S1 == markExecutionCompleted(Store, executionId, now)
    IN /\ executionMetadata' = S1.executionMetadata
       /\ UNCHANGED <<connections, updateHistory, now, connState, connKey, sink,
                      sinkClosed, keepAlive, request, response, accepted,
                      attachedAt, baseAt, expectedReplay, ticks>>
       /\ UNCHANGED <<clientVars, callVars>>

\* streamingStore.clearHistory(executionId): the array leaves the map, the
\* next addUpdate starts a new one
ClearHistory(executionId) ==
    /\ updateHistory' = Del(updateHistory, executionId)
    /\ baseAt' = Put(baseAt, executionId, Len(accepted))
    /\ UNCHANGED <<connections, executionMetadata, now, connState, connKey, sink,
                   sinkClosed, keepAlive, request, response, accepted,
                   attachedAt, expectedReplay, ticks>>
    /\ UNCHANGED <<clientVars, callVars>>

\* streamingStore.cleanupExecution(executionId)
CleanupExecution(executionId) ==
    LET S1 == removeExecution(Store, executionId)
    IN /\ connections' = S1.connections
       /\ updateHistory' = S1.updateHistory
       /\ executionMetadata' = S1.executionMetadata
       /\ baseAt' = Put(baseAt, executionId, Len(accepted))
       /\ UNCHANGED <<now, connState, connKey, sink, sinkClosed, keepAlive, request,
                      response, accepted, attachedAt, expectedReplay, ticks>>
       /\ UNCHANGED <<clientVars, callVars>>

\* request.signal "abort": both listeners run
Abort(c) ==
    LET S1 == removeConnection(Store, connKey[c], c)
    IN /\ connState[c] = "attached"
       /\ connections' = S1.connections
       /\ connState' = [connState EXCEPT ![c] = "aborted"]
       /\ keepAlive' = [keepAlive EXCEPT ![c] = FALSE]
       /\ UNCHANGED <<updateHistory, executionMetadata, now, connKey, sink, sinkClosed,
                      request, response, accepted, attachedAt, baseAt,
                      expectedReplay, ticks>>
       /\ UNCHANGED <<clientVars, callVars>>

\* the setInterval callback: enqueue a comment frame (": keep-alive" is no data
\* frame, so sink does not record it); on a throw, stop the interval and drop
\* the connection
KeepAlive(c) ==
    /\ keepAlive[c]
    /\ IF sinkClosed[c]
       THEN LET S1 == removeConnection(Store, connKey[c], c)
            IN /\ connections' = S1.connections
               /\ keepAlive' = [keepAlive EXCEPT ![c] = FALSE]
       ELSE UNCHANGED <<connections, keepAlive>>
    /\ UNCHANGED <<updateHistory, executionMetadata, now, connState, connKey, sink,
                   sinkClosed, request, response, accepted, attachedAt, baseAt,
                   expectedReplay, ticks>>
    /\ UNCHANGED <<clientVars, callVars>>

\* the transport closes the stream without the abort listener having run:
\* from now on controller.enqueue throws
CloseSink(c) ==
    /\ connState[c] = "attached"
    /\ ~sinkClosed[c]
    /\ sinkClosed' = [sinkClosed EXCEPT ![c] = TRUE]
    /\ UNCHANGED <<connections, updateHistory, executionMetadata, now, connState,
                   connKey, sink, keepAlive, request, response, accepted,
                   attachedAt, baseAt, expectedReplay, ticks>>
    /\ UNCHANGED <<clientVars, callVars>>

----------------------------------------------------------------------------
(* The periodic sweep and the clock *)

\* the setInterval callback of startPeriodicCleanup
Sweep ==
    LET gone == executionsToRemove(Store, now)
        S1 == performCleanup(Store, now)
    IN /\ connections' = S1.connections
       /\ updateHistory' = S1.updateHistory
       /\ executionMetadata' = S1.executionMetadata
       /\ baseAt' = [e \in (DOMAIN baseAt) \cup gone |->
                        IF e \in gone THEN Len(accepted) ELSE baseAt[e]]
       /\ UNCHANGED <<now, connState, connKey, sink, sinkClosed, keepAlive, request, response, accepted, attachedAt, expectedReplay, ticks>>
       /\ UNCHANGED <<clientVars, callVars>>

TickSteps == {1, COMPLETED_EXECUTION_TTL_MS, ACTIVE_EXECUTION_TTL_MS}

Tick(d) ==
    /\ ticks < MaxTicks
    /\ now' = now + d
    /\ ticks' = ticks + 1
    /\ UNCHANGED <<connections, updateHistory, executionMetadata, connState, connKey,
                   sink, sinkClosed, keepAlive, request, response, accepted,
                   attachedAt, baseAt, expectedReplay>>
    /\ UNCHANGED <<clientVars, callVars>>

----------------------------------------------------------------------------
(* StreamingClient (lib/n8n-client/streaming.ts). A client value C holds   *)
(* the fields of the object together with the transports it constructed    *)
(* and its pending reconnect timeouts; every method and every event        *)
(* handler is an operator from the client before to the client after.      *)

maxReconnectAttempts == 5
reconnectDelay == 1000

RECURSIVE Pow2(_)
Pow2(k) == IF k = 0 THEN 1 ELSE 2 * Pow2(k - 1)

Client == [ws |-> ws, eventSource |-> eventSource, subscriptions |-> subscriptions,
           reconnectAttempts |-> reconnectAttempts, isConnecting |-> isConnecting,
           isConnected |-> isConnected, transports |-> transports, timers |-> timers]

\* a WebSocket / EventSource just constructed. pending: the promise of
\* connectWebSocket / connectSSE that wraps it is not settled yet. read: the
\* number of frames of its stream whose message event has fired.
Transport(kind) == [kind |-> kind, state |-> "connecting", pending |-> TRUE, read |-> 0]

CallbackNames == {"onStart", "onUpdate", "onComplete", "onError"}

\* StreamingCallbacks: the callbacks given (has) and those that throw (throws)
Callbacks(has, throws) == [has |-> has, throws |-> throws]

\* setTimeout(callback, delay): the pending timeouts, kept in the order of
\* their delays (which of them fires next is not decided by this order)
RECURSIVE setTimeout(_, _)
setTimeout(pending, delay) ==
    IF pending = << >> \/ delay <= Head(pending) THEN <<delay>> \o pending
    ELSE <<Head(pending)>> \o setTimeout(Tail(pending), delay)

scheduleReconnect(C) ==
    IF C.reconnectAttempts >= maxReconnectAttempts THEN C
    ELSE [C EXCEPT !.timers = setTimeout(@, reconnectDelay * Pow2(C.reconnectAttempts)),
                   !.reconnectAttempts = @ + 1]

\* connect() after the await resolved
connectResolved(C) ==
    [C EXCEPT !.isConnected = TRUE, !.reconnectAttempts = 0, !.isConnecting = FALSE]

\* connect() after the await rejected: catch, then finally
connectRejected(C) ==
    LET C1 == scheduleReconnect([C EXCEPT !.isConnected = FALSE])
    IN [C1 EXCEPT !.isConnecting = FALSE]

connectWebSocket(C) ==
    [C EXCEPT !.transports = Append(@, Transport("websocket")),
              !.ws = Len(C.transports) + 1]

connectSSE(C) ==
    [C EXCEPT !.transports = Append(@, Transport("sse")),
              !.eventSource = Len(C.transports) + 1]

\* connect() up to its await. constructorThrows: new WebSocket / new
\* EventSource throws (no such global, malformed URL), the promise is rejected
\* at once and no transport exists.
connect(C, constructorThrows) ==
    IF C.isConnected \/ C.isConnecting THEN C
    ELSE LET C1 == [C EXCEPT !.isConnecting = TRUE]
         IN IF constructorThrows THEN connectRejected(C1)
            ELSE IF connectionType = "websocket" THEN connectWebSocket(C1)
            ELSE connectSSE(C1)

\* if (!this.isConnected && !this.isConnecting) this.connect()
connectIfIdle(C, constructorThrows) ==
    IF ~C.isConnected /\ ~C.isConnecting THEN connect(C, constructorThrows) ELSE C

subscribe(C, executionId, callbacks, constructorThrows) ==
    connectIfIdle([C EXCEPT !.subscriptions = Put(@, executionId, callbacks)],
                  constructorThrows)

unsubscribe(C, executionId) == [C EXCEPT !.subscriptions = Del(@, executionId)]

\* WebSocket.close(): a connecting or open socket starts closing
closeWebSocket(C, t) ==
    IF C.transports[t].state \in {"connecting", "open"}
    THEN [C EXCEPT !.transports[t].state = "closing"]
    ELSE C

\* EventSource.close(): closed at once, no event fires afterwards
closeEventSource(C, t) == [C EXCEPT !.transports[t].state = "closed"]

disconnect(C) ==
    LET C1 == IF C.ws # 0 THEN [closeWebSocket(C, C.ws) EXCEPT !.ws = 0] ELSE C
        C2 == IF C1.eventSource # 0
              THEN [closeEventSource(C1, C1.eventSource) EXCEPT !.eventSource = 0]
              ELSE C1
    IN [C2 EXCEPT !.isConnected = FALSE, !.isConnecting = FALSE,
                  !.subscriptions = EmptyMap]

\* onopen: resolve(), and connect() continues if it still awaits this transport
onopen(C, t) ==
    LET C1 == [C EXCEPT !.transports[t].state = "open", !.transports[t].pending = FALSE]
    IN IF C.transports[t].pending THEN connectResolved(C1) ELSE C1

\* eventSource.onerror. The handler closes this.eventSource, whichever
\* transport fired the event; retrying: an EventSource the handler did not
\* close goes back to connecting by itself (TRUE) or is closed for good.
sseOnerror(C, t, retrying) ==
    LET C1 == [C EXCEPT !.isConnected = FALSE,
                        !.transports[t].state = IF retrying THEN "connecting" ELSE "closed",
                        !.transports[t].pending = FALSE]
        C2 == IF C1.eventSource # 0
              THEN [closeEventSource(C1, C1.eventSource) EXCEPT !.eventSource = 0]
              ELSE C1
        C3 == scheduleReconnect(C2)
    IN IF C.transports[t].pending THEN connectRejected(C3) ELSE C3

\* ws.onerror: reject(error)
wsOnerror(C, t) ==
    LET C1 == [C EXCEPT !.transports[t].pending = FALSE]
    IN IF C.transports[t].pending THEN connectRejected(C1) ELSE C1

\* ws.onclose
wsOnclose(C, t) ==
    scheduleReconnect([C EXCEPT !.transports[t].state = "closed",
                                !.isConnected = FALSE, !.ws = 0])

\* one call of a callback; threw: the call ended in an exception
Invocation(callback, executionId, threw) ==
    [callback |-> callback, executionId |-> executionId, threw |-> threw]

\* if (callbacks.f) { try { callbacks.f(...) } catch { log } }
tryInvoke(callbacks, callback, executionId) ==
    IF callback \in callbacks.has
    THEN <<Invocation(callback, executionId, callback \in callbacks.throws)>>
    ELSE << >>

\* the callbacks handleUpdate(update) invokes, in order
callbacksInvoked(C, update) ==
    IF ~Has(C.subscriptions, update.executionId) THEN << >>
    ELSE LET callbacks == C.subscriptions[update.executionId]
         IN tryInvoke(callbacks, "onUpdate", update.executionId)
            \o (IF update.status = "completed"
                THEN tryInvoke(callbacks, "onComplete", update.executionId) ELSE << >>)
            \o (IF update.status = "error"
                THEN tryInvoke(callbacks, "onError", update.executionId) ELSE << >>)

\* the callbacks invoked for each execution since its subscription, after
\* handleUpdate(update)
dispatch(D, C, update) ==
    LET invocations == callbacksInvoked(C, update)
        executionId == update.executionId
    IN IF invocations = << >> THEN D
       ELSE Put(D, executionId,
                (IF Has(D, executionId) THEN D[executionId] ELSE << >>)
                    \o [i \in DOMAIN invocations |-> invocations[i].callback])

handleUpdateKeeps(C, update) == C

handleUpdateUnguarded(C, update) ==
    IF ~Has(C.subscriptions, update.executionId) THEN C
    ELSE IF C.subscriptions[update.executionId].throws # {} THEN C
    ELSE IF update.status \in {"completed", "error"}
         THEN unsubscribe(C, update.executionId)
         ELSE C

\* the client after handleUpdate(update)
handleUpdate(C, update) ==
    IF ~Has(C.subscriptions, update.executionId) THEN C
    ELSE IF update.status \in {"completed", "error"}
         THEN unsubscribe(C, update.executionId)
         ELSE C

\* JSON.parse(event.data) of a frame of the SSE stream
parseFrame(frame) ==
    [executionId |-> frame.executionId,
     status |-> IF frame.type = "update" THEN frame.update.status.s ELSE ""]

----------------------------------------------------------------------------
(* The client's methods and the events of its transports as actions *)

SetClient(C) ==
    /\ ws' = C.ws
    /\ eventSource' = C.eventSource
    /\ subscriptions' = C.subscriptions
    /\ reconnectAttempts' = C.reconnectAttempts
    /\ isConnecting' = C.isConnecting
    /\ isConnected' = C.isConnected
    /\ transports' = C.transports
    /\ timers' = C.timers

\* a call of connect() that constructs a transport stays within the bound
Constructs(C, constructorThrows) ==
    ~C.isConnected /\ ~C.isConnecting /\ ~constructorThrows

\* a call of connect() whose constructor throws is one more failure
Throws(C, constructorThrows) ==
    ~C.isConnected /\ ~C.isConnecting /\ constructorThrows

IsLive(t) == transports[t].state \in {"connecting", "open"}

Subscribe(executionId, callbacks, constructorThrows) ==
    /\ Constructs(Client, constructorThrows) => Len(transports) < MaxTransports
    /\ Throws(Client, constructorThrows) => failures < MaxFailures
    /\ SetClient(subscribe(Client, executionId, callbacks, constructorThrows))
    /\ failures' = IF Throws(Client, constructorThrows)
                   THEN failures + 1 ELSE failures
    /\ disconnected' = FALSE
    /\ dispatched' = Put(dispatched, executionId, << >>)
    /\ UNCHANGED <<connectionType, invoked, received, notified>>
    /\ UNCHANGED <<serverVars, callVars>>

Unsubscribe(executionId) ==
    /\ Has(subscriptions, executionId)
    /\ SetClient(unsubscribe(Client, executionId))
    /\ UNCHANGED <<connectionType, invoked, received, failures, notified, disconnected, dispatched>>
    /\ UNCHANGED <<serverVars, callVars>>

Connect(constructorThrows) ==
    /\ Constructs(Client, constructorThrows) => Len(transports) < MaxTransports
    /\ Throws(Client, constructorThrows) => failures < MaxFailures
    /\ SetClient(connect(Client, constructorThrows))
    /\ failures' = IF Throws(Client, constructorThrows)
                   THEN failures + 1 ELSE failures
    /\ disconnected' = FALSE
    /\ UNCHANGED <<connectionType, invoked, received, notified, dispatched>>
    /\ UNCHANGED <<serverVars, callVars>>

ClientDisconnect ==
    /\ SetClient(disconnect(Client))
    /\ disconnected' = TRUE
    /\ UNCHANGED <<connectionType, invoked, received, failures, notified, dispatched>>
    /\ UNCHANGED <<serverVars, callVars>>

\* the transport's open event
Open(t) ==
    /\ transports[t].state = "connecting"
    /\ SetClient(onopen(Client, t))
    /\ failures' = IF transports[t].pending THEN 0 ELSE failures
    /\ UNCHANGED <<connectionType, invoked, received, notified, disconnected, dispatched>>
    /\ UNCHANGED <<serverVars, callVars>>

\* the EventSource's error event: the connection attempt failed, or the open
\* stream was lost
SseError(t, retrying) ==
    /\ transports[t].kind = "sse"
    /\ IsLive(t)
    /\ failures < MaxFailures
    /\ SetClient(sseOnerror(Client, t, retrying))
    /\ failures' = failures + 1
    /\ UNCHANGED <<connectionType, invoked, received, notified, disconnected, dispatched>>
    /\ UNCHANGED <<serverVars, callVars>>

\* the WebSocket's close event, after its error event when the connection
\* failed: a connection attempt that fails always fires error first; a socket
\* closed by close() while connecting may; an open socket that is lost may
WsClose(t, withError) ==
    /\ transports[t].kind = "websocket"
    /\ transports[t].state \in {"connecting", "open", "closing"}
    /\ transports[t].state = "connecting" => withError
    /\ transports[t].state # "closing" => failures < MaxFailures
    /\ SetClient(wsOnclose(IF withError THEN wsOnerror(Client, t) ELSE Client, t))
    /\ failures' = IF transports[t].state = "closing" THEN failures ELSE failures + 1
    /\ UNCHANGED <<connectionType, invoked, received, notified, disconnected, dispatched>>
    /\ UNCHANGED <<serverVars, callVars>>

RemoveAt(q, i) == SubSeq(q, 1, i - 1) \o SubSeq(q, i + 1, Len(q))

\* the callback of a reconnect setTimeout
TimerFires(i, constructorThrows) ==
    LET C1 == [Client EXCEPT !.timers = RemoveAt(@, i)]
    IN /\ i \in 1..Len(timers)
       /\ Constructs(Client, constructorThrows) => Len(transports) < MaxTransports
       /\ Throws(Client, constructorThrows) => failures < MaxFailures
       /\ SetClient(connectIfIdle(C1, constructorThrows))
       /\ failures' = IF Throws(Client, constructorThrows)
                      THEN failures + 1 ELSE failures
       /\ UNCHANGED <<connectionType, invoked, received, notified, disconnected, dispatched>>
       /\ UNCHANGED <<serverVars, callVars>>

\* onmessage of an open transport: handleUpdate(JSON.parse(event.data))
Receive(t, update) ==
    /\ transports[t].state = "open"
    /\ received < MaxMessages
    /\ SetClient(handleUpdate(Client, update))
    /\ invoked' = callbacksInvoked(Client, update)
    /\ received' = received + 1
    /\ notified' = notified \cup
          {x.executionId : x \in {callbacksInvoked(Client, update)[i] :
                                     i \in 1..Len(callbacksInvoked(Client, update))}
                                 \cap [callback : {"onComplete", "onError"},
                                       executionId : {update.executionId},
                                       threw : BOOLEAN]}
    /\ dispatched' = dispatch(dispatched, Client, update)
    /\ UNCHANGED <<connectionType, failures, disconnected>>
    /\ UNCHANGED <<serverVars, callVars>>

----------------------------------------------------------------------------
(* callWebhook (lib/n8n-client/webhook.ts) and pollExecutionStatus          *)
(* (lib/n8n-client/execution.ts)                                            *)

\* N8nWorkflowResponse; "" stands for a field that is absent
Result(success, error, executionId, workflowId, streaming, data) ==
    [success |-> success, error |-> error, executionId |-> executionId,
     workflowId |-> workflowId, streaming |-> streaming, data |-> data]

NoResult == Result(FALSE, "", "", "", FALSE, "")

\* getExecution returned null
NoExecution ==
    [found |-> FALSE, id |-> "", finished |-> FALSE, status |-> "",
     stoppedAt |-> FALSE, runData |-> FALSE, message |-> "", nested |-> ""]

\* an N8nExecution: stoppedAt: the field is populated; runData: data holds the
\* nodes' output; message / nested: data.error.message / data.error.error.message
Execution(id, finished, status, stoppedAt, runData, message, nested) ==
    [found |-> TRUE, id |-> id, finished |-> finished, status |-> status,
     stoppedAt |-> stoppedAt, runData |-> runData, message |-> message,
     nested |-> nested]

extractWorkflowResult(execution) ==
    IF execution.runData THEN "last node output"
    ELSE IF execution.message # "" \/ execution.nested # "" THEN "execution data"
    ELSE "execution status"

isActuallyFinishedStrict(execution) == execution.finished

isActuallyFinished(execution) ==
    \/ execution.finished
    \/ execution.status = "error" /\ execution.stoppedAt
    \/ execution.status = "canceled" /\ execution.stoppedAt

errorMessage(execution) ==
    IF execution.message # "" THEN execution.message
    ELSE IF execution.nested # "" THEN execution.nested
    ELSE "Workflow execution failed: error"

getPollInterval == DEFAULT_POLL_INTERVAL

NoPoll ==
    [pc |-> "idle", executionId |-> "", timeout |-> 0, startTime |-> 0,
     fetches |-> 0, fetchStart |-> 0, execution |-> NoExecution,
     result |-> NoResult]

whileGuardAfterFetch(P, time) == P.fetches = 0 \/ time - P.startTime < P.timeout

\* while (Date.now() - startTime < timeout)
whileGuard(P, time) == time - P.startTime < P.timeout

\* the head of the loop: the next getExecution starts, or the loop is left
\* and the timeout failure returned
pollLoop(P, time) ==
    IF whileGuard(P, time)
    THEN [P EXCEPT !.pc = "fetching", !.fetches = @ + 1, !.fetchStart = time]
    ELSE [P EXCEPT !.pc = "done",
             !.result = Result(FALSE,
                 "Workflow execution timeout - workflow took too long to complete",
                 "", "", FALSE, "")]

\* pollExecutionStatus up to its first await
pollExecutionStatus(executionId, timeout, startTime, time) ==
    pollLoop([NoPoll EXCEPT !.executionId = executionId, !.timeout = timeout,
                            !.startTime = startTime], time)

pollBodyByStatus(P, execution) ==
    LET P1 == [P EXCEPT !.execution = execution]
    IN IF ~execution.found THEN P1
       ELSE IF execution.status = "success"
       THEN [P1 EXCEPT !.pc = "done",
                !.result = Result(TRUE, "", execution.id, "", FALSE,
                                  extractWorkflowResult(execution))]
       ELSE P1

\* the body of the loop after getExecution answered: a Result, or nothing
\* (pc stays "fetching") when the loop goes on to its sleep
pollBody(P, execution) ==
    LET P1 == [P EXCEPT !.execution = execution]
    IN IF ~execution.found THEN P1
       ELSE IF ~isActuallyFinished(execution) THEN P1
       ELSE IF execution.status = "success"
       THEN [P1 EXCEPT !.pc = "done",
                !.result = Result(TRUE, "", execution.id, "", FALSE,
                                  extractWorkflowResult(execution))]
       ELSE IF execution.status = "error"
       THEN [P1 EXCEPT !.pc = "done",
                !.result = Result(FALSE, errorMessage(execution), execution.id,
                                  "", FALSE, "")]
       ELSE IF execution.status = "canceled"
       THEN [P1 EXCEPT !.pc = "done",
                !.result = Result(FALSE, "Workflow execution was canceled",
                                  execution.id, "", FALSE, "")]
       ELSE P1

\* the places of a response body where an execution id is looked for:
\* data.executionId, data.id, data.data.executionId, data.data.id, and the
\* first string the deep search meets under one of EXECUTION_ID_FIELDS (root
\* execution_id / execution, objects and arrays below the root); each is a
\* JavaScript value
Ids(executionId, id, nestedExecutionId, nestedId, deep) ==
    [executionId |-> executionId, id |-> id,
     nestedExecutionId |-> nestedExecutionId, nestedId |-> nestedId, deep |-> deep]

NoIds == Ids(Undefined, Undefined, Undefined, Undefined, Undefined)

\* the webhook's response body. ids: as above; message: data.message; async:
\* data.async === true or data.mode === "async"; fields: Object.keys(data).length
ResponseData(ids, message, async, fields) ==
    [ids |-> ids, message |-> message, async |-> async, fields |-> fields]

\* response.json() rejected
NotJson == ResponseData(NoIds, "Workflow executed successfully", FALSE, 1)

Uuid == "0f8fad5b-d9cb-469f-a165-70867728950e"

isUuid(value) == value = Uuid

\* a string that is no UUID is passed over, null ("") when nothing is left
deepSearchExecutionId(ids) ==
    IF ids.deep.t = "string" /\ isUuid(ids.deep.s) THEN ids.deep.s ELSE ""

\* the first field that is a string is returned as it is, the empty string
\* included; null is ""
extractExecutionId(data) ==
    IF data.ids.executionId.t = "string" THEN data.ids.executionId.s
    ELSE IF data.ids.id.t = "string" THEN data.ids.id.s
    ELSE IF data.ids.nestedExecutionId.t = "string" THEN data.ids.nestedExecutionId.s
    ELSE IF data.ids.nestedId.t = "string" THEN data.ids.nestedId.s
    ELSE deepSearchExecutionId(data.ids)

isAsyncResponse(data) ==
    \/ data.message = "Workflow was started"
    \/ extractExecutionId(data) # ""
    \/ data.async

NoCall ==
    [pc |-> "idle", timeout |-> 0, waitForCompletion |-> "undefined",
     envWait |-> TRUE, streaming |-> FALSE, streamingCallbacks |-> Callbacks({}, {}),
     workflowId |-> "", startTime |-> 0, settled |-> "", headerId |-> "",
     data |-> NotJson,
     webhookResponseTime |-> 0, executionId |-> "", remainingTimeout |-> 0,
     events |-> << >>, result |-> NoResult]

\* the names of the callbacks tryInvoke calls
Names(invocations) == [i \in DOMAIN invocations |-> invocations[i].callback]

returns(K, result) == [K EXCEPT !.pc = "done", !.result = result]

\* what a rejected fetch throws. isError: error instanceof Error
Thrown(isError, name, message) ==
    [isError |-> isError, name |-> name, message |-> message]

\* the AbortController aborts the request
AbortError == Thrown(TRUE, "AbortError", "This operation was aborted")

uncaught(K, error) == [K EXCEPT !.pc = "threw"]

catchMessageOnly(K, error) ==
    IF error.isError
    THEN returns(K, Result(FALSE, error.message, "", "", FALSE, ""))
    ELSE returns(K, Result(FALSE, "Unknown error occurred", "", "", FALSE, ""))

\* the catch block of callWebhook
catch(K, error) ==
    IF error.isError
    THEN IF error.name = "AbortError"
         THEN returns(K, Result(FALSE,
                  "Request timeout - workflow took too long to respond",
                  "", "", FALSE, ""))
         ELSE returns(K, Result(FALSE, error.message, "", "", FALSE, ""))
    ELSE returns(K, Result(FALSE, "Unknown error occurred", "", "", FALSE, ""))

handleAsyncResponseWithoutExecution(K) ==
    LET looksLikeResult ==
            K.data.message # "Workflow was started" /\ K.data.fields > 1
    IN IF looksLikeResult \/ K.webhookResponseTime > SYNC_RESPONSE_THRESHOLD_MS
       THEN returns(K, Result(TRUE, "", "", K.workflowId, FALSE, "response data"))
       ELSE returns(K, Result(TRUE, "", "", K.workflowId, FALSE,
                              "response data with note"))

streamingSetupSubscribesFirst(K) ==
    IF K.executionId # ""
    THEN returns([K EXCEPT !.events = @ \o <<"subscribe">>
                     \o Names(tryInvoke(K.streamingCallbacks, "onStart", K.executionId))],
                 Result(TRUE, "", K.executionId, K.workflowId, TRUE,
                        "Workflow started, streaming updates enabled"))
    ELSE returns([K EXCEPT !.events = @
                     \o Names(tryInvoke(K.streamingCallbacks, "onError", ""))],
                 Result(FALSE, "Could not determine execution ID for streaming",
                        "", K.workflowId, FALSE, ""))

\* streaming mode once the execution id is resolved or given up
streamingSetup(K) ==
    IF K.executionId # ""
    THEN returns([K EXCEPT !.events = @
                     \o Names(tryInvoke(K.streamingCallbacks, "onStart", K.executionId))
                     \o <<"subscribe">>],
                 Result(TRUE, "", K.executionId, K.workflowId, TRUE,
                        "Workflow started, streaming updates enabled"))
    ELSE returns([K EXCEPT !.events = @
                     \o Names(tryInvoke(K.streamingCallbacks, "onError", ""))],
                 Result(FALSE, "Could not determine execution ID for streaming",
                        "", K.workflowId, FALSE, ""))

waitSetupAlwaysPolls(K, time) ==
    IF K.executionId # ""
    THEN [K EXCEPT !.remainingTimeout = K.timeout - (time - K.startTime),
                   !.pc = "polling", !.events = @ \o <<"pollExecutionStatus">>]
    ELSE handleAsyncResponseWithoutExecution(K)

\* wait mode once the execution id is resolved or given up; the poller runs
\* up to its first await
waitSetup(K, time) ==
    IF K.executionId # ""
    THEN LET remainingTimeout == K.timeout - (time - K.startTime)
             K1 == [K EXCEPT !.remainingTimeout = remainingTimeout]
         IN IF remainingTimeout > 0
            THEN [K1 EXCEPT !.pc = "polling",
                            !.events = @ \o <<"pollExecutionStatus">>]
            ELSE returns(K1, Result(FALSE,
                     "Insufficient time remaining to wait for workflow completion",
                     K.executionId, "", FALSE, ""))
    ELSE handleAsyncResponseWithoutExecution(K)

shouldWait(K) ==
    IF K.waitForCompletion # "undefined" THEN K.waitForCompletion = "true"
    ELSE K.envWait

\* callWebhook from the 2xx response to its next await or its return
afterResponse(K, time) ==
    IF K.streaming
    THEN IF K.executionId = ""
         THEN [K EXCEPT !.pc = "lookup", !.events = @ \o <<"findExecutionViaApi">>]
         ELSE streamingSetup(K)
    ELSE IF shouldWait(K) /\ isAsyncResponse(K.data)
    THEN IF K.executionId = ""
         THEN [K EXCEPT !.pc = "lookup", !.events = @ \o <<"findExecutionViaApi">>]
         ELSE waitSetup(K, time)
    ELSE returns(K, Result(TRUE, "", K.executionId, K.workflowId, FALSE,
                           "response data"))

afterLookupWaits(K, time) ==
    IF K.streaming /\ K.executionId # "" THEN streamingSetup(K) ELSE waitSetup(K, time)

\* callWebhook after findExecutionViaApi answered
afterLookup(K, time) ==
    IF K.streaming THEN streamingSetup(K) ELSE waitSetup(K, time)

\* the poller callWebhook delegates to, run up to its first await
delegated(K, time) ==
    IF K.pc = "polling"
    THEN pollExecutionStatus(K.executionId, K.remainingTimeout, K.startTime, time)
    ELSE poll

\* return await pollExecutionStatus(...)
awaited(K, P) == IF K.pc = "polling" /\ P.pc = "done" THEN returns(K, P.result) ELSE K

----------------------------------------------------------------------------
(* The steps of callWebhook and pollExecutionStatus between their awaits *)

\* the step leaves callWebhook at K: the subscription it registered and the
\* poller it started take effect
SetCall(K, time, constructorThrows) ==
    LET subscribes == K.pc = "done" /\ K.result.streaming
    IN /\ call' = awaited(K, delegated(K, time))
       /\ poll' = delegated(K, time)
       /\ clock' = time
       /\ UNCHANGED <<held, lookup>>
       /\ IF subscribes
          THEN /\ Constructs(Client, constructorThrows)
                    => Len(transports) < MaxTransports
               /\ Throws(Client, constructorThrows) => failures < MaxFailures
               /\ SetClient(subscribe(Client, K.executionId, K.streamingCallbacks,
                                      constructorThrows))
               /\ failures' = IF Throws(Client, constructorThrows)
                              THEN failures + 1 ELSE failures
               /\ disconnected' = FALSE
               /\ dispatched' = Put(dispatched, K.executionId, << >>)
          ELSE /\ ~constructorThrows
               /\ UNCHANGED <<ws, eventSource, subscriptions, reconnectAttempts,
                              isConnecting, isConnected, transports, timers, failures,
                              disconnected, dispatched>>
       /\ UNCHANGED <<connectionType, invoked, received, notified>>
       /\ UNCHANGED serverVars

\* callWebhook(webhookUrl, method, payload, timeout, waitForCompletion,
\* streamingCallbacks) up to await fetch(webhookUrl, options). streaming:
\* streamingCallbacks is given; envWait: shouldWaitForCompletion()
CallWebhook(timeout, waitForCompletion, envWait, streaming, callbacks, workflowId) ==
    /\ call.pc = "idle"
    /\ poll.pc = "idle"
    /\ call' = [NoCall EXCEPT !.pc = "webhook", !.timeout = timeout,
                   !.waitForCompletion = waitForCompletion, !.envWait = envWait,
                   !.streaming = streaming, !.streamingCallbacks = callbacks,
                   !.workflowId = workflowId, !.startTime = clock,
                   !.events = <<"fetch">>]
    /\ UNCHANGED <<poll, clock, held, lookup>>
    /\ UNCHANGED <<serverVars, clientVars>>

\* the webhook request settles after d ms. outcome: "ok" (2xx), "not ok",
\* "rejected" (fetch rejects with an Error: network error), "thrown" (it
\* rejects with a value that is no Error); the AbortController's timeout
\* comes first when the request has not settled within call.timeout
WebhookSettles(d, outcome, headerId, data, constructorThrows) ==
    LET aborted == d >= call.timeout
        time == clock + (IF aborted THEN call.timeout ELSE d)
        C == [call EXCEPT !.settled = IF aborted THEN "aborted" ELSE outcome]
        K == [C EXCEPT !.webhookResponseTime = time - clock, !.data = data,
                 !.headerId = headerId,
                 !.executionId = IF headerId # "" THEN headerId
                                 ELSE extractExecutionId(data)]
    IN /\ call.pc = "webhook"
       /\ SetCall(IF aborted THEN catch(C, AbortError)
                  ELSE IF outcome = "rejected"
                  THEN catch(C, Thrown(TRUE, "TypeError", "fetch failed"))
                  ELSE IF outcome = "thrown"
                  THEN catch(C, Thrown(FALSE, "", ""))
                  ELSE IF outcome = "not ok"
                  THEN returns(C, Result(FALSE, "HTTP status", "", "", FALSE, ""))
                  ELSE afterResponse(K, time),
                  time, constructorThrows)

\* findExecutionViaApi(workflowId, startTime) answers after d ms with an
\* execution id or null (found = "")
LookupSettles(d, found, constructorThrows) ==
    /\ call.pc = "lookup"
    /\ SetCall(afterLookup([call EXCEPT !.executionId = found], clock + d),
               clock + d, constructorThrows)

\* pollExecutionStatus(executionId, timeout, startTime) called on its own
PollExecutionStatus(executionId, timeout, startTime) ==
    /\ call.pc = "idle"
    /\ poll.pc = "idle"
    /\ poll' = pollExecutionStatus(executionId, timeout, startTime, clock)
    /\ UNCHANGED <<call, clock, held, lookup>>
    /\ UNCHANGED <<serverVars, clientVars>>

\* getExecution answers after d ms; the loop returns, or sleeps for the poll
\* interval and comes back to its head
GetExecutionSettles(d, execution) ==
    LET P == pollBody(poll, execution)
        time == IF P.pc = "done" THEN clock + d ELSE clock + d + getPollInterval
        P1 == IF P.pc = "done" THEN P ELSE pollLoop(P, time)
    IN /\ poll.pc = "fetching"
       /\ execution.found => execution.id = poll.executionId
       /\ poll' = P1
       /\ call' = awaited(call, P1)
       /\ clock' = time
       /\ UNCHANGED <<held, lookup>>
       /\ UNCHANGED <<serverVars, clientVars>>

----------------------------------------------------------------------------
(* findExecutionViaApi: the execution id looked up in the execution listing *)

EXECUTION_LOOKUP_BUFFER_MS == 10000
MAX_WORKFLOW_ID_ATTEMPTS == 5
MAX_TIME_BASED_ATTEMPTS == 3

\* one element of the listing's data array; startedAt in ms
ListedExecution(id, workflowId, startedAt, finished) ==
    [id |-> id, workflowId |-> workflowId, startedAt |-> startedAt,
     finished |-> finished]

\* what fetch(apiUrl) and response.json() give: outcome "ok", "not ok" or
\* "rejected" (the fetch or the parse throws); data: the data array, empty
\* also when the property is missing
Listing(outcome, data) == [outcome |-> outcome, data |-> data]

\* the place of exec in a list sorted by descending start time: behind every
\* element that started at the same time or later (Array.prototype.sort is
\* stable)
RECURSIVE insertByTime(_, _)
insertByTime(sorted, exec) ==
    IF sorted = << >> THEN <<exec>>
    ELSE IF Head(sorted).startedAt >= exec.startedAt
    THEN <<Head(sorted)>> \o insertByTime(Tail(sorted), exec)
    ELSE <<exec>> \o sorted

RECURSIVE sortExecutionsByTime(_)
sortExecutionsByTime(executions) ==
    IF executions = << >> THEN << >>
    ELSE insertByTime(sortExecutionsByTime(SubSeq(executions, 1, Len(executions) - 1)),
                      executions[Len(executions)])

RECURSIVE filterExecutionsByTime(_, _)
filterExecutionsByTime(executions, startedAfter) ==
    IF executions = << >> THEN << >>
    ELSE IF Head(executions).startedAt >= startedAfter
    THEN <<Head(executions)>> \o filterExecutionsByTime(Tail(executions), startedAfter)
    ELSE filterExecutionsByTime(Tail(executions), startedAfter)

\* executions.filter((exec) => exec.workflowId === workflowId)
RECURSIVE filterByWorkflowId(_, _)
filterByWorkflowId(executions, workflowId) ==
    IF executions = << >> THEN << >>
    ELSE IF Head(executions).workflowId = workflowId
    THEN <<Head(executions)>> \o filterByWorkflowId(Tail(executions), workflowId)
    ELSE filterByWorkflowId(Tail(executions), workflowId)

\* executions.find((exec) => !exec.finished)
RECURSIVE findUnfinished(_)
findUnfinished(executions) ==
    IF executions = << >> THEN ""
    ELSE IF ~Head(executions).finished THEN Head(executions).id
    ELSE findUnfinished(Tail(executions))

\* the id selected, "" for null
selectBestExecution(executions) ==
    IF executions = << >> THEN ""
    ELSE IF findUnfinished(executions) # "" THEN findUnfinished(executions)
    ELSE executions[1].id

\* the fallback of the unfiltered URL: the most recent of all the listed
\* executions when none is of the workflow
mostRecentOfAny(data, startedAfter) ==
    LET allRecentExecutions == sortExecutionsByTime(filterExecutionsByTime(data, startedAfter))
    IN IF allRecentExecutions # << >> THEN allRecentExecutions[1].id ELSE ""

\* one turn of findLatestExecution's loop over its two URLs: the id it
\* returns, "" when it goes on to the next URL
tryApiUrl(isFiltered, listing, workflowId, startedAfter) ==
    IF listing.outcome # "ok" \/ listing.data = << >> THEN ""
    ELSE LET executions == IF isFiltered THEN listing.data
                           ELSE filterByWorkflowId(listing.data, workflowId)
             executionId == selectBestExecution(
                 sortExecutionsByTime(filterExecutionsByTime(executions, startedAfter)))
         IN IF executionId # "" THEN executionId
            ELSE IF executions = << >> /\ ~isFiltered
            THEN mostRecentOfAny(listing.data, startedAfter)
            ELSE ""

findLatestExecutionByTime(listing, startedAfter) ==
    IF listing.outcome # "ok" \/ listing.data = << >> THEN ""
    ELSE selectBestExecution(
             sortExecutionsByTime(filterExecutionsByTime(listing.data, startedAfter)))

\* pc: "idle", "sleeping" (the setTimeout before an attempt), "listing" (a
\* request of the attempt is in flight) or "done". attempt counts from 0;
\* requests: the fetches made; waits: the delays slept; response: the last
\* answer of the listing endpoint
NoLookup ==
    [pc |-> "idle", hasApiKey |-> FALSE, workflowId |-> "", startTime |-> 0,
     attempt |-> 0, isFiltered |-> FALSE, requests |-> 0, waits |-> << >>,
     response |-> Listing("rejected", << >>), result |-> ""]

maxAttemptsInclusive(L) ==
    IF L.workflowId # "" THEN MAX_WORKFLOW_ID_ATTEMPTS + 1
    ELSE MAX_TIME_BASED_ATTEMPTS + 1

\* the bound of the for loop that runs
maxAttempts(L) ==
    IF L.workflowId # "" THEN MAX_WORKFLOW_ID_ATTEMPTS ELSE MAX_TIME_BASED_ATTEMPTS

\* findExecutionViaApi up to its first await
findExecutionViaApi(hasApiKey, workflowId, startTime) ==
    LET L == [NoLookup EXCEPT !.hasApiKey = hasApiKey, !.workflowId = workflowId,
                              !.startTime = startTime]
    IN IF ~hasApiKey THEN [L EXCEPT !.pc = "done"]
       ELSE [L EXCEPT !.pc = "sleeping"]

\* setTimeout(resolve, 1000 * (attempt + 1))
attemptDelay(L) == 1000 * (L.attempt + 1)

\* the attempt found nothing: the next turn of the for loop
nextAttempt(L) ==
    IF L.attempt + 1 < maxAttempts(L)
    THEN [L EXCEPT !.pc = "sleeping", !.attempt = @ + 1]
    ELSE [L EXCEPT !.pc = "done", !.result = ""]

\* the listing endpoint answered a request of the attempt
afterListing(L, listing) ==
    LET startedAfter == L.startTime - EXECUTION_LOOKUP_BUFFER_MS
        L1 == [L EXCEPT !.response = listing, !.requests = @ + 1]
        executionId ==
            IF L.workflowId # ""
            THEN tryApiUrl(L.isFiltered, listing, L.workflowId, startedAfter)
            ELSE findLatestExecutionByTime(listing, startedAfter)
    IN IF executionId # "" THEN [L1 EXCEPT !.pc = "done", !.result = executionId]
       ELSE IF L.workflowId # "" /\ L.isFiltered
       THEN [L1 EXCEPT !.isFiltered = FALSE]
       ELSE nextAttempt(L1)

FindExecutionViaApi(hasApiKey, workflowId, startTime) ==
    /\ call.pc = "idle"
    /\ poll.pc = "idle"
    /\ lookup.pc = "idle"
    /\ lookup' = findExecutionViaApi(hasApiKey, workflowId, startTime)
    /\ UNCHANGED <<call, poll, clock, held>>
    /\ UNCHANGED <<serverVars, clientVars>>

\* the timer of the attempt fires: the first request of the attempt is made
LookupTimer ==
    /\ lookup.pc = "sleeping"
    /\ lookup' = [lookup EXCEPT !.pc = "listing",
                                !.waits = Append(@, attemptDelay(lookup)),
                                !.isFiltered = lookup.workflowId # ""]
    /\ clock' = clock + attemptDelay(lookup)
    /\ UNCHANGED <<call, poll, held>>
    /\ UNCHANGED <<serverVars, clientVars>>

\* the listing endpoint answers after d ms
ListingSettles(d, listing) ==
    /\ lookup.pc = "listing"
    /\ lookup' = afterListing(lookup, listing)
    /\ clock' = clock + d
    /\ UNCHANGED <<call, poll, held>>
    /\ UNCHANGED <<serverVars, clientVars>>

----------------------------------------------------------------------------
(* The server: the Store after construction, then any interleaving of the  *)
(* handlers                                                                 *)

NoRequest == Request(TRUE, Body("invalid", Undefined, Data("undefined", Undefined),
                                Undefined), Null, <<Null, Null, Null>>)

ServerInit ==
    /\ connections = EmptyMap
    /\ updateHistory = EmptyMap
    /\ executionMetadata = EmptyMap
    /\ now = 1
    /\ connState = [c \in Connections |-> "new"]
    /\ connKey = [c \in Connections |-> ""]
    /\ sink = [c \in Connections |-> << >>]
    /\ sinkClosed = [c \in Connections |-> FALSE]
    /\ keepAlive = [c \in Connections |-> FALSE]
    /\ request = NoRequest
    /\ response = NoResponse
    /\ accepted = << >>
    /\ attachedAt = [c \in Connections |-> 0]
    /\ baseAt = EmptyMap
    /\ expectedReplay = [c \in Connections |-> << >>]
    /\ ticks = 0

\* a StreamingClient after construction
ClientInit(type) ==
    /\ ws = 0
    /\ eventSource = 0
    /\ connectionType = type
    /\ subscriptions = EmptyMap
    /\ reconnectAttempts = 0
    /\ isConnecting = FALSE
    /\ isConnected = FALSE
    /\ transports = << >>
    /\ timers = << >>
    /\ invoked = << >>
    /\ received = 0
    /\ failures = 0
    /\ notified = {}
    /\ disconnected = FALSE
    /\ dispatched = EmptyMap

CallInit ==
    /\ call = NoCall
    /\ poll = NoPoll
    /\ clock = 0
    /\ held = NoArray
    /\ lookup = NoLookup

\* DEFAULT_STREAMING_CONNECTION_TYPE is "sse"
Init == ServerInit /\ ClientInit("sse") /\ CallInit

NoData == Data("undefined", Undefined)
NoHeaders == <<Null, Null, Null>>

\* well-formed updates, as the workflow's HTTP Request node sends them
ServerRequests ==
    {Request(TRUE, Body("object", JStr(e), NoData, st), Null, NoHeaders) :
        e \in {"E1", "E2", "default"}, st \in {JStr("in_progress")}}

ServerParams == {"", "E1"}

Ingress == /\ Len(accepted) < MaxUpdates
           /\ \E req \in ServerRequests : POST(req)
Attach == \E c \in Connections, p \in ServerParams : GET(c, p)
Disconnect == \E c \in Connections : Abort(c)
KeepAliveTimer == \E c \in Connections : KeepAlive(c)
TransportClose == \E c \in Connections : CloseSink(c)

Next == Ingress \/ Attach \/ Disconnect \/ KeepAliveTimer \/ TransportClose

Spec == Init /\ [][Next]_vars

----------------------------------------------------------------------------
(* The server over a long time: the clock advances and the sweep runs *)

SweepRequests ==
    {Request(TRUE, Body("object", JStr("E1"), NoData, st), Null, NoHeaders) :
        st \in {JStr("in_progress"), JStr("completed")}}

SweepIngress == /\ Len(accepted) < MaxSweepUpdates
                /\ \E req \in SweepRequests : POST(req)
SweepAttach == \E p \in ServerParams : GET("c1", p)
SweepDisconnect == Abort("c1")
Clock == \E d \in TickSteps : Tick(d)

NextSweep ==  SweepIngress \/ SweepAttach \/ SweepDisconnect \/ Sweep \/ Clock

SpecSweep == Init /\ [][NextSweep]_vars

----------------------------------------------------------------------------
(* An execution that is read again and again: time only passes when every  *)
(* tracked execution has just been accessed, and passes in steps shorter    *)
(* than the shortest TTL                                                    *)

ReadInterval == COMPLETED_EXECUTION_TTL_MS \div 2 + 1

ReadIngress == /\ Len(accepted) < MaxReadUpdates
               /\ \E req \in SweepRequests : POST(req)
ReadAttach == GET("c1", "E1")
ReadDisconnect == Abort("c1")
ReadHistory == GetHistory("E1")
ReadClock ==
    /\ \A e \in DOMAIN executionMetadata : executionMetadata[e].lastAccessTime = now
    /\ Tick(ReadInterval)

NextRead ==
    ReadIngress \/ ReadAttach \/ ReadDisconnect \/ ReadHistory \/ Sweep \/ ReadClock

SpecRead == Init /\ [][NextRead]_vars

----------------------------------------------------------------------------
(* The Store under every public method, the handlers and the sweep          *)

\* E1 is posted to and attached to, E2 is never touched by a handler
StoreKeys == {"E1", "E2"}

StoreRequests ==
    {Request(TRUE, Body("object", JStr("E1"), NoData, st), Null, NoHeaders) :
        st \in {JStr("in_progress"), JStr("completed")}}

StoreIngress == /\ Len(accepted) < MaxStoreUpdates
                /\ \E req \in StoreRequests : POST(req)
StoreAttach == GET("c1", "E1")
StoreDisconnect == Abort("c1")
StoreGetHistory == \E e \in StoreKeys : GetHistory(e)
StoreMarkCompleted == MarkCompleted("E1")
StoreClearHistory == ClearHistory("E1")
StoreCleanupExecution == CleanupExecution("E1")
\* time passes in steps just over the shorter TTL
StoreClock == Tick(COMPLETED_EXECUTION_TTL_MS + 1)

NextStore ==
    \/ StoreIngress \/ StoreAttach \/ StoreDisconnect \/ StoreGetHistory
    \/ StoreMarkCompleted \/ StoreClearHistory \/ StoreCleanupExecution
    \/ Sweep \/ StoreClock

SpecStore == Init /\ [][NextStore]_vars

----------------------------------------------------------------------------
(* Connection lifecycle: attaches, disconnects, dead transports, keep-alive  *)
(* timers and the sweep after long idle periods                              *)

LifeIngress == /\ Len(accepted) < MaxLifeUpdates
               /\ \E req \in SweepRequests : POST(req)
Idle == /\ ticks < MaxIdles
        /\ Tick(ACTIVE_EXECUTION_TTL_MS + 1)

NextLife == LifeIngress \/ Attach \/ Disconnect \/ KeepAliveTimer \/ TransportClose
            \/ Sweep \/ Idle

SpecLife == Init /\ [][NextLife]_vars

----------------------------------------------------------------------------
(* A long-running execution: more updates than the history holds *)

CapRequest == Request(TRUE, Body("object", JStr("E1"), NoData, JStr("in_progress")),
                      Null, NoHeaders)

CapIngress == /\ Len(accepted) < MaxCapUpdates
              /\ POST(CapRequest)
CapAttach == GET("c1", "E1")

NextCap == CapIngress \/ CapAttach

SpecCap == Init /\ [][NextCap]_vars

----------------------------------------------------------------------------
(* One ingress request of any shape, against subscribers already attached *)

IdValues == {Undefined, Null, JStr(""), JStr("A"), JNum(0), JNum(42)}

DataValues ==
    {Data("undefined", Undefined), Data("null", Undefined)}
        \cup {Data("object", v) : v \in {Undefined, Null, JStr(""), JStr("B"), JNum(7)}}

Bodies ==
    {Body("object", e, d, st) :
        e \in IdValues, d \in DataValues, st \in {Undefined, JStr("completed")}}
        \cup {Body(k, Undefined, NoData, Undefined) :
                k \in {"array", "primitive", "null", "invalid"}}
        \cup {Body("object", JStr("A"), NoData, st) : st \in {JStr("done"), JNum(1)}}

QueryValues == {Null, JStr(""), JStr("Q")}

HeaderValues ==
    {<<h1, h2, h3>> : h1 \in {Null, JStr(""), JStr("H1")}, h2 \in {Null, JStr("H2")},
                      h3 \in {Null, JStr("H3")}}

AllRequests ==
    {Request(TRUE, b, q, h) : b \in Bodies, q \in QueryValues, h \in HeaderValues}
        \cup {Request(FALSE, Body("object", JStr("A"), NoData, Undefined), Null, NoHeaders)}

IngressParams == {"", "0", "A"}

IngressOnce == /\ response = NoResponse
               /\ \E req \in AllRequests : POST(req)
IngressAttach == \E c \in Connections, p \in IngressParams : GET(c, p)
IngressClose == CloseSink("c1")

NextIngress == IngressOnce \/ IngressAttach \/ IngressClose

SpecIngress == Init /\ [][NextIngress]_vars

----------------------------------------------------------------------------
(* A StreamingClient of either connection type, its callers and the events *)
(* of its transports                                                        *)

QuietCallbacks == Callbacks(CallbackNames, {})

ClientSubscribe == \E th \in BOOLEAN : Subscribe("X", QuietCallbacks, th)
ClientUnsubscribe == Unsubscribe("X")
ClientConnect == \E th \in BOOLEAN : Connect(th)
TransportOpen == \E t \in DOMAIN transports : Open(t)
TransportError == \E t \in DOMAIN transports, retrying \in BOOLEAN : SseError(t, retrying)
SocketClose == \E t \in DOMAIN transports, withError \in BOOLEAN : WsClose(t, withError)
ReconnectTimer == \E i \in DOMAIN timers, th \in BOOLEAN : TimerFires(i, th)

ClientAnyInit ==
    ServerInit /\ (\E type \in {"websocket", "sse"} : ClientInit(type)) /\ CallInit

NextClient ==
    ClientSubscribe \/ ClientUnsubscribe \/ ClientConnect \/ ClientDisconnect
        \/ TransportOpen \/ TransportError \/ SocketClose \/ ReconnectTimer

SpecClient == ClientAnyInit /\ [][NextClient]_vars

----------------------------------------------------------------------------
(* Dispatch of received updates to the subscriptions of a connected client *)

ClientIds == {"X", "Y"}

ClientCallbacks ==
    {QuietCallbacks, Callbacks(CallbackNames, CallbackNames),
     Callbacks({"onComplete"}, {})}

ClientUpdates ==
    [executionId : {"X", "Y", "Z"}, status : {"in_progress", "completed", "error"}]

DispatchSubscribe ==
    \E e \in ClientIds, cb \in ClientCallbacks : Subscribe(e, cb, FALSE)
DispatchUnsubscribe == \E e \in ClientIds : Unsubscribe(e)
Message == \E t \in DOMAIN transports, u \in ClientUpdates : Receive(t, u)

NextDispatch == DispatchSubscribe \/ DispatchUnsubscribe \/ TransportOpen \/ Message

SpecDispatch == Init /\ [][NextDispatch]_vars

----------------------------------------------------------------------------
(* The client of a workflow call against the server: the client subscribes *)
(* to execution X and opens its EventSource on /stream/sse/default, the    *)
(* workflow posts its updates for X, the stream carries the frames of the  *)
(* server's sink to the client's onmessage                                 *)

\* the server-side connection that serves the client's t-th EventSource
ConnOf(t) == IF t = 1 THEN "c1" ELSE "c2"

NotifyRequests ==
    {Request(TRUE, Body("object", JStr("X"), NoData, st), Null, NoHeaders) :
        st \in {JStr("in_progress"), JStr("completed"), JStr("error")}}

\* the message event of the next frame of the stream
Deliver(t) ==
    LET c == ConnOf(t)
        update == parseFrame(sink[c][transports[t].read + 1])
        C1 == [Client EXCEPT !.transports[t].read = @ + 1]
    IN /\ transports[t].state = "open"
       /\ transports[t].read < Len(sink[c])
       /\ SetClient(handleUpdate(C1, update))
       /\ invoked' = callbacksInvoked(Client, update)
       /\ received' = received + 1
       /\ notified' = notified \cup
             {update.executionId : i \in
                 {i \in 1..Len(callbacksInvoked(Client, update)) :
                     callbacksInvoked(Client, update)[i].callback
                        \in {"onComplete", "onError"}}}
       /\ dispatched' = dispatch(dispatched, Client, update)
       /\ UNCHANGED <<connectionType, failures, disconnected>>
       /\ UNCHANGED <<serverVars, callVars>>

NotifySubscribe ==
    /\ ~Has(subscriptions, "X")
    /\ accepted = << >>
    /\ Len(transports) < Cardinality(Connections)
    /\ Subscribe("X", QuietCallbacks, FALSE)
NotifyIngress ==
    /\ Has(subscriptions, "X")
    /\ Len(accepted) < MaxNotifyUpdates
    /\ \E req \in NotifyRequests : POST(req)
NotifyAttach ==
    \E t \in DOMAIN transports :
        /\ transports[t].state = "connecting"
        /\ GET(ConnOf(t), "default")
NotifyOpen ==
    \E t \in DOMAIN transports : connState[ConnOf(t)] = "attached" /\ Open(t)
NotifyDeliver == \E t \in DOMAIN transports : Deliver(t)
\* a failure of the stream after which the client can still reconnect
NotifyError ==
    /\ Len(transports) < Cardinality(Connections)
    /\ \E t \in DOMAIN transports : SseError(t, FALSE)
NotifyAbort ==
    \E t \in DOMAIN transports : transports[t].state = "closed" /\ Abort(ConnOf(t))
NotifyTimer ==
    \E i \in DOMAIN timers :
        /\ Constructs(Client, FALSE) => Len(transports) < Cardinality(Connections)
        /\ TimerFires(i, FALSE)

NextNotify ==
    NotifySubscribe \/ NotifyIngress \/ NotifyAttach \/ NotifyOpen \/ NotifyDeliver
        \/ NotifyError \/ NotifyAbort \/ NotifyTimer

\* the server answers a connection request, an open stream delivers its
\* frames, a pending timeout fires, the server notices a closed stream
SpecNotify ==
    /\ Init
    /\ [][NextNotify]_vars
    /\ WF_vars(NotifyAttach)
    /\ WF_vars(NotifyOpen)
    /\ WF_vars(NotifyDeliver)
    /\ WF_vars(NotifyAbort)
    /\ WF_vars(NotifyTimer)

----------------------------------------------------------------------------
(* One call of callWebhook with its webhook, its execution lookup and the  *)
(* job runner's status endpoint                                             *)

Timeouts == {0, 1000, 2000}
Durations == {0, 600, 1200}

CallCallbacks ==
    {Callbacks({}, {}), QuietCallbacks, Callbacks(CallbackNames, CallbackNames)}

Responses ==
    {ResponseData(Ids(JStr("abc"), Undefined, Undefined, Undefined, Undefined),
                  "Workflow was started", FALSE, 2),
     ResponseData(NoIds, "Workflow was started", FALSE, 1),
     ResponseData(NoIds, "", TRUE, 2),
     ResponseData(NoIds, "", FALSE, 2),
     NotJson}
    \cup {ResponseData(ids, "", FALSE, 1) : ids \in
            {Ids(Undefined, JStr("abc"), Undefined, Undefined, Undefined),
             Ids(JNum(7), Undefined, JStr("abc"), Undefined, Undefined),
             Ids(Undefined, Undefined, Undefined, JStr("abc"), JStr(Uuid)),
             Ids(Undefined, Undefined, Undefined, Undefined, JStr(Uuid)),
             Ids(Undefined, Undefined, Undefined, Undefined, JStr("abc")),
             Ids(JStr(""), JStr("abc"), Undefined, Undefined, Undefined)}}

Executions(id) ==
    {NoExecution}
    \cup {Execution(id, finished, status, stoppedAt, status = "success", "", "") :
            finished \in BOOLEAN, stoppedAt \in BOOLEAN,
            status \in {"success", "error", "canceled", "running", "waiting"}}
    \cup {Execution(id, FALSE, "error", TRUE, FALSE, message, nested) :
            message \in {"", "node failed"}, nested \in {"", "cause"}}

CallStart ==
    \E timeout \in Timeouts \ {0},
       waitForCompletion \in {"undefined", "true", "false"},
       envWait \in BOOLEAN, streaming \in BOOLEAN, callbacks \in CallCallbacks,
       workflowId \in {"", "wf"} :
        /\ ~streaming => callbacks = Callbacks({}, {})
        /\ CallWebhook(timeout, waitForCompletion, envWait, streaming, callbacks,
                       workflowId)
CallWebhookSettles ==
    \E d \in Durations, outcome \in {"ok", "not ok", "rejected", "thrown"},
       headerId \in {"", "abc"}, data \in Responses, th \in BOOLEAN :
        WebhookSettles(d, outcome, headerId, data, th)
CallLookupSettles ==
    \E d \in Durations, found \in {"", "abc"}, th \in BOOLEAN :
        LookupSettles(d, found, th)
CallGetExecutionSettles ==
    \E d \in Durations, execution \in Executions(poll.executionId) :
        GetExecutionSettles(d, execution)

NextCall ==
    CallStart \/ CallWebhookSettles \/ CallLookupSettles \/ CallGetExecutionSettles

SpecCall == Init /\ [][NextCall]_vars

(* pollExecutionStatus called on its own *)

PollStart ==
    \E timeout \in Timeouts, elapsed \in Durations :
        PollExecutionStatus("abc", timeout, clock - elapsed)

NextPoll == PollStart \/ CallGetExecutionSettles

SpecPoll == Init /\ [][NextPoll]_vars

\* every request to the status endpoint is answered, and the sleep ends
SpecPollFair == SpecPoll /\ WF_vars(CallGetExecutionSettles)

----------------------------------------------------------------------------
(* One call of findExecutionViaApi and the answers of the listing endpoint  *)

\* start times relative to the start of the call: before the lookup window,
\* on its edge, and after the call started
StartOffsets == [old |-> 0 - EXECUTION_LOOKUP_BUFFER_MS - 1,
                 edge |-> 0 - EXECUTION_LOOKUP_BUFFER_MS,
                 new |-> 1]

\* the executions the job runner knows, each with an id of its own
KnownExecutions(startTime) ==
    {ListedExecution(w \o "-" \o o \o (IF f THEN "-finished" ELSE "-running"),
                     w, startTime + StartOffsets[o], f) :
        w \in {"wf", "other"}, o \in DOMAIN StartOffsets, f \in BOOLEAN}

\* the data arrays of at most MaxListing distinct executions out of pool
DataArrays(pool) ==
    UNION {{data \in [1..n -> pool] : \A i, j \in 1..n : i # j => data[i] # data[j]} :
            n \in 0..MaxListing}

\* the endpoint applies the workflowId parameter of the first URL
Listings(L) ==
    LET known == KnownExecutions(L.startTime)
        pool == IF L.isFiltered THEN {x \in known : x.workflowId = L.workflowId}
                ELSE known
    IN {Listing("not ok", << >>), Listing("rejected", << >>)}
        \cup {Listing("ok", data) : data \in DataArrays(pool)}

LookupStart ==
    \E hasApiKey \in BOOLEAN, workflowId \in {"", "wf"}, elapsed \in {0, 600} :
        FindExecutionViaApi(hasApiKey, workflowId, clock - elapsed)
LookupListingSettles ==
    \E d \in {600}, listing \in Listings(lookup) : ListingSettles(d, listing)

NextLookup == LookupStart \/ LookupTimer \/ LookupListingSettles

SpecLookup == Init /\ [][NextLookup]_vars

\* the answers with at most one execution
ShortListings(L) == {listing \in Listings(L) : Len(listing.data) <= 1}

LookupAnswers ==
    \E listing \in ShortListings(lookup) : ListingSettles(600, listing)

NextLookupFair == LookupStart \/ LookupTimer \/ LookupAnswers

\* timers fire and every request to the listing endpoint is answered
SpecLookupFair ==
    Init /\ [][NextLookupFair]_vars /\ WF_vars(LookupTimer) /\ WF_vars(LookupAnswers)

----------------------------------------------------------------------------
(* Claims *)

\* the connections registered in the Store under one of the keys
Registered(keys) ==
    {c \in Connections : \E k \in keys \cap DOMAIN connections : c \in connections[k]}

\* C1: after any sequence of addUpdate calls every execution's history has at
\* most MAX_HISTORY (100) entries and equals the most recent min(n, 100)
\* updates accepted for that execution, in arrival order.
C1_HistoryIsLastAccepted ==
    \A e \in DOMAIN updateHistory :
        /\ Len(updateHistory[e]) <= 100
        /\ updateHistory[e] = LastN(ForKeys(accepted, {e}), 100)

\* more than 100 updates were accepted for E1 and the oldest two are gone
C1_Witness ==
    /\ Has(updateHistory, "E1")
    /\ Len(ForKeys(accepted, {"E1"})) = 102
    /\ Len(updateHistory["E1"]) = 100
    /\ updateHistory["E1"][1].seq = 3

\* C2: a sweep pass never removes an execution that has at least one
\* registered connection, whatever the age of its metadata and whether or not
\* it is completed.
C2_SweepKeepsConnected ==
    [][Sweep => \A e \in DOMAIN executionMetadata :
                    hasConnections(Store, e) =>
                        /\ e \in DOMAIN executionMetadata'
                        /\ e \in DOMAIN connections']_vars

\* a request that is attached, whose stream is open and whose keep-alive timer
\* still runs, is registered under no key: the sweep removed its execution
C2_Witness ==
    /\ connState["c1"] = "attached"
    /\ ~sinkClosed["c1"]
    /\ keepAlive["c1"]
    /\ "c1" \notin Registered({connKey["c1"]})

RECURSIVE Terminals(_)
Terminals(q) ==
    IF q = << >> THEN << >>
    ELSE IF IsTerminal(Head(q).status)
         THEN <<Head(q)>> \o Terminals(Tail(q))
         ELSE Terminals(Tail(q))

\* C3: when two (or more) terminal updates have been added for the same
\* execution, completedAt is the time of the first of them: a later terminal
\* update does not reset it. (The updates of these runs carry no timestamp, so
\* each one's timestamp is the server time at which it was added.)
C3_CompletedAtIsFirstTerminal ==
    \A e \in DOMAIN executionMetadata :
        LET terminals == Terminals(LoggedSince(e))
        IN terminals # << >> =>
              /\ executionMetadata[e].isCompleted
              /\ executionMetadata[e].completedAt = terminals[1].timestamp.n

\* two terminal updates for E1, added at different times
C3_Witness ==
    /\ Has(executionMetadata, "E1")
    /\ LET terminals == Terminals(LoggedSince("E1"))
       IN /\ Len(terminals) >= 2
          /\ terminals[2].timestamp.n > terminals[1].timestamp.n
          /\ executionMetadata["E1"].completedAt = terminals[1].timestamp.n
          /\ executionMetadata["E1"].lastUpdateTime = terminals[2].timestamp.n

\* the updates accepted for the keys after the first k accepted updates
AcceptedAfter(k, keys) == ForKeys(SubSeq(accepted, k + 1, Len(accepted)), keys)

\* the executions whose live updates a subscriber of key is sent: its own; a
\* subscriber of "default" is sent every execution's
SentTo(key) ==
    IF key = "default" THEN {accepted[i].executionId : i \in 1..Len(accepted)}
    ELSE {key}

\* C4: a client attached to key E receives, in this order, the connected
\* marker, E's history at attach in arrival order, the "default" key's history
\* at attach (when E is not "default"), and then exactly the updates for E
\* accepted since, each once, for as long as its connection is registered and
\* its stream open. (A client attached to "default" receives the marker, the
\* "default" history and then every update accepted since.)
C4_ReplayThenLive ==
    \A c \in Connections :
        c \in Registered({connKey[c]}) /\ ~sinkClosed[c] =>
            sink[c] = <<ConnectedFrame(connKey[c])>>
                        \o Frames(expectedReplay[c])
                        \o Frames(AcceptedAfter(attachedAt[c], SentTo(connKey[c])))

\* a client on E1 that was replayed an E1 update, then a "default" update, and
\* then received a live one
C4_Witness ==
    \E c \in Registered({"E1"}) :
        /\ ~sinkClosed[c]
        /\ Len(expectedReplay[c]) = 2
        /\ expectedReplay[c][1].executionId = "E1"
        /\ expectedReplay[c][2].executionId = "default"
        /\ Len(sink[c]) = 4
        /\ sink[c][4].update.executionId = "E1"

RECURSIVE InArrivalOrder(_)
InArrivalOrder(q) ==
    \/ Len(q) <= 1
    \/ /\ q[1].seq < q[2].seq
       /\ InArrivalOrder(Tail(q))

RECURSIVE Updates(_)
Updates(frames) ==
    IF frames = << >> THEN << >> ELSE <<Head(frames).update>> \o Updates(Tail(frames))

\* the frames a connection received after its replay
Live(c) == Updates(SubSeq(sink[c], 2 + Len(expectedReplay[c]), Len(sink[c])))

\* C5: the live updates of every connection are in the order in which the
\* Store accepted them, and every stored history lists its updates in arrival
\* order, under any interleaving of ingress POSTs and egress attaches.
C5_ArrivalOrder ==
    /\ \A e \in DOMAIN updateHistory :
          /\ InArrivalOrder(updateHistory[e])
          /\ \A i \in 1..Len(updateHistory[e]) :
                accepted[updateHistory[e][i].seq] = updateHistory[e][i]
    /\ \A c \in Connections :
          connState[c] # "new" =>
              /\ InArrivalOrder(Live(c))
              /\ \A i \in 1..Len(Live(c)) : accepted[Live(c)[i].seq] = Live(c)[i]

\* a connection with two live updates, and a history of two updates
C5_Witness ==
    /\ \E c \in Connections : connState[c] # "new" /\ Len(Live(c)) >= 2
    /\ \E e \in DOMAIN updateHistory : Len(updateHistory[e]) >= 2

\* C6: broadcast(update) delivers the update to every connection registered
\* under the update's executionId and to every connection registered under
\* "default"; a sink whose enqueue throws is skipped, the other sinks still
\* get the update, and the ingress POST still answers success.
C6_BroadcastSurvivesDeadSink ==
    [][accepted' # accepted =>
        LET update == accepted'[Len(accepted')]
            targets == Registered({update.executionId, "default"})
        IN /\ response'.status = 200
           /\ response'.success
           /\ \A c \in Connections :
                 sink'[c] = IF c \in targets /\ ~sinkClosed[c]
                            THEN Append(sink[c], UpdateFrame(update))
                            ELSE sink[c]]_vars

\* an update answered with success that one registered sink refused and
\* another registered sink received
C6_Witness ==
    /\ response.status = 200
    /\ accepted # << >>
    /\ LET update == accepted[Len(accepted)]
           targets == Registered({update.executionId, "default"})
       IN \E c \in targets, d \in targets :
            /\ sinkClosed[c]
            /\ attachedAt[c] < Len(accepted)
            /\ sink[c][Len(sink[c])] # UpdateFrame(update)
            /\ ~sinkClosed[d]
            /\ attachedAt[d] < Len(accepted)
            /\ sink[d][Len(sink[d])] = UpdateFrame(update)

\* C7: after a client disconnect (the request's abort signal) the connection
\* is registered under no key of the Store and its keep-alive timer is
\* stopped, whatever broadcasts, sweeps, attaches and timers interleave.
C7_AbortUnregisters ==
    \A c \in Connections :
        connState[c] = "aborted" =>
            /\ ~keepAlive[c]
            /\ \A k \in DOMAIN connections : c \notin connections[k]

\* one client of E1 has disconnected while another is still attached to E1,
\* after an update and a long idle period
C7_Witness ==
    /\ connState["c1"] = "aborted"
    /\ connKey["c1"] = "E1"
    /\ "c2" \in Registered({"E1"})
    /\ accepted # << >>
    /\ ticks > 0

\* a value that can serve as an executionId: not absent, not null, not empty
Usable(v) == v # Undefined /\ v # Null /\ v # JStr("")

\* the places of a request that may carry the executionId, in priority order
Locations(req) ==
    <<Field(req.body, req.body.executionId),
      IF dataOf(req.body).kind = "object" THEN dataOf(req.body).executionId
      ELSE Undefined,
      req.query, req.headers[1], req.headers[2], req.headers[3]>>

CarriesNone(req) == \A i \in 1..6 : ~Usable(Locations(req)[i])

FirstUsable(req) ==
    LET i == CHOOSE i \in 1..6 :
                /\ Usable(Locations(req)[i])
                /\ \A j \in 1..(i - 1) : ~Usable(Locations(req)[j])
    IN Locations(req)[i]

Handled == response # NoResponse

\* C8: ingress takes the executionId from the first of body.executionId,
\* body.data.executionId, the executionId query parameter and the headers
\* x-execution-id / execution-id / x-n8n-execution-id, and rejects a request as
\* missing executionId (400) only if none of them carries a usable value.
C8_RejectsOnlyWhenNoLocationUsable ==
    Handled =>
        /\ response.status = 200 =>
              response.executionId = JsString(FirstUsable(request))
        /\ response.status = 400 => CarriesNone(request)

\* a request answered 400 although one of its locations carries a usable value
C8_Witness ==
    /\ Handled
    /\ response.status = 400
    /\ ~CarriesNone(request)
    /\ Usable(request.headers[3])

\* C9: a POST whose body executionId is the number 0 is accepted, and the
\* update is stored and broadcast under the string key "0"; numeric
\* executionIds (42 in the body, 7 in body.data) reach the Store as "42", "7".
C9_NumericIdIsString ==
    LET body == request.body
        key == IF body.executionId = JNum(0) THEN "0"
               ELSE IF body.executionId = JNum(42) THEN "42"
               ELSE "7"
    IN (/\ Handled
        /\ request.originAllowed
        /\ body.kind = "object"
        /\ \/ body.executionId \in {JNum(0), JNum(42)}
           \/ body.executionId = Undefined /\ body.data = Data("object", JNum(7)))
       =>
       /\ response = Response(200, TRUE, key)
       /\ DOMAIN updateHistory = {key}
       /\ Len(updateHistory[key]) = 1
       /\ updateHistory[key][1].executionId = key
       /\ accepted = updateHistory[key]
       /\ \A c \in Registered({key, "default"}) :
             attachedAt[c] = 0 /\ ~sinkClosed[c] =>
                sink[c] = <<ConnectedFrame(connKey[c]), UpdateFrame(accepted[1])>>

\* executionId 0 was posted and a subscriber of "0" and a subscriber of
\* "default", both attached before, received the update
C9_Witness ==
    /\ Handled
    /\ request.body.executionId = JNum(0)
    /\ Has(updateHistory, "0")
    /\ "c1" \in Registered({"0"}) /\ attachedAt["c1"] = 0 /\ Len(sink["c1"]) = 2
    /\ "c2" \in Registered({"default"}) /\ attachedAt["c2"] = 0 /\ Len(sink["c2"]) = 2

\* C10: a POST that carries no executionId in any location is answered with
\* 400, never 500, for every JSON body value (object, array, null, primitive),
\* and leaves the Store unchanged: no history, no update accepted, no entry
\* beyond those of the attached connections, no frame beyond their markers.
C10_MissingIdIs400 ==
    (/\ Handled
     /\ request.originAllowed
     /\ request.body.kind # "invalid"
     /\ CarriesNone(request))
    =>
    /\ response.status = 400
    /\ accepted = << >>
    /\ updateHistory = EmptyMap
    /\ DOMAIN executionMetadata = DOMAIN connections
    /\ \A c \in Connections : Len(sink[c]) <= 1

\* the JSON body null, with no executionId anywhere, answered with 500
C10_Witness ==
    /\ Handled
    /\ request.originAllowed
    /\ request.body.kind = "null"
    /\ CarriesNone(request)
    /\ response.status = 500

\* the callbacks of the names given that the subscription has, each called
\* for executionId, in the order given
Calls(callbacks, names, executionId) ==
    LET keep(i) == names[i] \in callbacks.has
        RECURSIVE from(_)
        from(i) == IF i > Len(names) THEN << >>
                   ELSE (IF keep(i)
                         THEN <<[callback |-> names[i], executionId |-> executionId,
                                 threw |-> names[i] \in callbacks.throws]>>
                         ELSE << >>) \o from(i + 1)
    IN from(1)

\* C11: a received update invokes callbacks only of the subscription whose
\* executionId is the update's: onUpdate first; then, for status completed,
\* onComplete and the subscription is removed; for status error, onError and
\* the subscription is removed; a callback that throws prevents neither the
\* later callback nor the removal; an update with no matching subscription
\* invokes nothing and changes nothing. No other subscription is touched.
C11_DispatchToMatchingSubscription ==
    [][\A t \in DOMAIN transports, u \in ClientUpdates :
         Receive(t, u) =>
            IF ~Has(subscriptions, u.executionId)
            THEN /\ invoked' = << >>
                 /\ UNCHANGED <<ws, eventSource, subscriptions, reconnectAttempts,
                                isConnecting, isConnected, transports, timers>>
            ELSE /\ invoked' =
                      Calls(subscriptions[u.executionId],
                            CASE u.status = "completed" -> <<"onUpdate", "onComplete">>
                              [] u.status = "error" -> <<"onUpdate", "onError">>
                              [] OTHER -> <<"onUpdate">>,
                            u.executionId)
                 /\ DOMAIN subscriptions' =
                      IF u.status \in {"completed", "error"}
                      THEN DOMAIN subscriptions \ {u.executionId}
                      ELSE DOMAIN subscriptions
                 /\ \A e \in DOMAIN subscriptions' : subscriptions'[e] = subscriptions[e]
      ]_vars

\* a completed update for X whose onUpdate and onComplete both threw: both
\* were called, in that order, X is unsubscribed and Y still subscribed
C11_Witness ==
    /\ Len(invoked) = 2
    /\ invoked[1] = [callback |-> "onUpdate", executionId |-> "X", threw |-> TRUE]
    /\ invoked[2] = [callback |-> "onComplete", executionId |-> "X", threw |-> TRUE]
    /\ ~Has(subscriptions, "X")
    /\ Has(subscriptions, "Y")

\* the transports that are connecting or open: their handlers are attached
\* and a message they receive reaches handleUpdate
LiveTransports == {t \in DOMAIN transports : IsLive(t)}

\* C12: a StreamingClient has at most one live transport (a WebSocket or an
\* EventSource with its message handler attached) at any time, under every
\* interleaving of subscribe, unsubscribe, connect, disconnect, transport
\* open/error/close events and reconnect timers.
C12_AtMostOneLiveTransport == Cardinality(LiveTransports) <= 1

\* two open transports at once, only one of them known to the client
C12_Witness ==
    \E t1 \in DOMAIN transports, t2 \in DOMAIN transports :
        /\ t1 # t2
        /\ transports[t1].state = "open"
        /\ transports[t2].state = "open"
        /\ subscriptions # EmptyMap

\* C13: after a transport failure the client retries with exponentially
\* growing delays, 1s doubled per consecutive failed attempt (the k-th failure
\* in a row schedules one retry, 1000 * 2^(k-1) ms later), schedules at most
\* 5 retries without a successful connection in between, and resets the
\* attempt counter to 0 on a successful connection.
C13_BackoffDoublesPerFailure ==
    [][/\ failures' = failures + 1 =>
            IF failures < 5
            THEN /\ reconnectAttempts' = failures + 1
                 /\ \E i \in DOMAIN timers' : timers'[i] = 1000 * Pow2(failures)
                 /\ Len(timers') <= Len(timers) + 1
            ELSE /\ reconnectAttempts' = 5
                 /\ Len(timers') <= Len(timers)
       /\ (failures # 0 /\ failures' = 0) => reconnectAttempts' = 0
       /\ reconnectAttempts' <= 5
      ]_vars

\* one failed connection attempt of an EventSource has scheduled two retries,
\* after 1s and after 2s, and counts as two attempts
C13_Witness ==
    /\ connectionType = "sse"
    /\ failures = 1
    /\ Len(transports) = 1
    /\ reconnectAttempts = 2
    /\ timers = <<1000, 2000>>

\* C14: the client retries by itself only while a subscription is
\* registered: with an empty subscription map no reconnect timer is scheduled
\* and no reconnect timer starts a connection attempt.
C14_RetriesOnlyWhileSubscribed ==
    [][/\ subscriptions' = EmptyMap => reconnectAttempts' <= reconnectAttempts
       /\ \A i \in DOMAIN timers, th \in BOOLEAN :
             (subscriptions = EmptyMap /\ TimerFires(i, th)) =>
                UNCHANGED <<transports, isConnecting, reconnectAttempts>>
      ]_vars

\* nobody is subscribed; the open EventSource was lost, the one retry timer
\* it scheduled has fired, and the client is connecting a second EventSource
C14_Witness ==
    /\ connectionType = "sse"
    /\ subscriptions = EmptyMap
    /\ Len(transports) = 2
    /\ transports[1].state = "closed"
    /\ transports[2].state = "connecting"
    /\ isConnecting
    /\ failures = 1
    /\ reconnectAttempts = 1
    /\ timers = << >>

\* a terminal update for X that the Store has accepted
TerminalAccepted(executionId) ==
    \E i \in 1..Len(accepted) :
        accepted[i].executionId = executionId /\ IsTerminal(accepted[i].status)

\* C15: once the Store has accepted a terminal update (completed or error)
\* for X, for which a subscription was registered before, the subscription's
\* onComplete or onError is eventually invoked, also when the client's
\* transport was disconnected or still connecting when the update was
\* broadcast and connects afterwards.
C15_TerminalUpdateIsNotified == TerminalAccepted("X") ~> ("X" \in notified)

\* the Store holds a terminal update for X, the client's stream is open and
\* has delivered every frame the server sent, nothing is pending, and X is
\* still subscribed and was never notified
C15_Witness ==
    /\ TerminalAccepted("X")
    /\ Has(subscriptions, "X")
    /\ "X" \notin notified
    /\ isConnected
    /\ timers = << >>
    /\ \E t \in DOMAIN transports :
          /\ transports[t].state = "open"
          /\ ConnOf(t) \in Registered({"default"})
          /\ transports[t].read = Len(sink[ConnOf(t)])
          /\ transports[t].read >= 1

\* the events of a call, without the webhook request and the lookup
Steps(events) ==
    SelectSeq(events, LAMBDA x : x \notin {"fetch", "findExecutionViaApi"})

C17_StreamingUnresolved ==
    (/\ call.pc = "done"
     /\ call.streaming
     /\ call.executionId = ""
     /\ \E i \in DOMAIN call.events : call.events[i] = "findExecutionViaApi")
        => /\ Steps(call.events) =
                (IF "onError" \in call.streamingCallbacks.has
                 THEN <<"onError">> ELSE << >>)
           /\ ~call.result.success
           /\ call.result.error = "Could not determine execution ID for streaming"
           /\ ~call.result.streaming
           /\ subscriptions = EmptyMap
           /\ transports = << >>
           /\ poll = NoPoll

\* waiting was asked for, the response was an asynchronous acknowledgement,
\* onError threw
C17_Witness ==
    /\ call.pc = "done"
    /\ call.streaming
    /\ call.waitForCompletion = "true"
    /\ call.data.message = "Workflow was started"
    /\ call.events = <<"fetch", "findExecutionViaApi", "onError">>
    /\ "onError" \in call.streamingCallbacks.throws
    /\ ~call.result.success

\* the call took the wait path with an execution id from the response and a
\* positive remaining budget
Delegated ==
    /\ ~call.streaming
    /\ shouldWait(call)
    /\ isAsyncResponse(call.data)
    /\ call.events = <<"fetch", "pollExecutionStatus">>
    /\ call.remainingTimeout > 0

\* C18: when the 2xx response is an asynchronous acknowledgement carrying an
\* execution id, waiting is enabled, the remaining budget is positive at the
\* delegation and every answer of the status endpoint is finished: true,
\* status: success, the call ends with {success: true, data: the extracted
\* result, executionId}.
C18_WaitReturnsResult ==
    (/\ Delegated
     /\ poll.fetches > 0 => /\ poll.execution.found
                            /\ poll.execution.finished
                            /\ poll.execution.status = "success")
        => /\ call.pc = "done" => /\ call.result.success
                                  /\ call.result.executionId = call.executionId
           /\ poll.fetches > 0 /\ call.pc = "done"
                => call.result.data = extractWorkflowResult(poll.execution)

\* the poller returned the timeout failure without asking the status endpoint,
\* with budget left
C18_Witness ==
    /\ Delegated
    /\ call.pc = "done"
    /\ poll.fetches = 0
    /\ ~call.result.success
    /\ clock - call.startTime < call.timeout

\* C19: pollExecutionStatus starts a status fetch only while the time elapsed
\* since startTime is below its timeout; called with a timeout of 0 it returns
\* the timeout failure without any fetch.
C19_NoFetchPastTimeout ==
    /\ poll.pc = "fetching" => poll.fetchStart - poll.startTime < poll.timeout
    /\ (poll.pc # "idle" /\ poll.timeout = 0)
          => /\ poll.pc = "done"
             /\ poll.fetches = 0
             /\ ~poll.result.success
             /\ poll.result.error =
                  "Workflow execution timeout - workflow took too long to complete"

\* the loop fetched, slept past its deadline and returned the timeout failure
C19_Witness ==
    /\ poll.pc = "done"
    /\ poll.fetches >= 1
    /\ clock - poll.startTime >= poll.timeout
    /\ poll.result.error =
         "Workflow execution timeout - workflow took too long to complete"

\* C20: a fetched record with finished: false, status error or canceled and a
\* populated stoppedAt ends the poll at once with a failure Result; no further
\* fetch is made.
C20_StoppedIsTerminal ==
    (/\ poll.execution.found
     /\ ~poll.execution.finished
     /\ poll.execution.status \in {"error", "canceled"}
     /\ poll.execution.stoppedAt)
        => /\ poll.pc = "done"
           /\ ~poll.result.success
           /\ poll.result.error # ""
           /\ poll.result.executionId = poll.execution.id

\* the record came at the second fetch, after one that was not terminal
C20_Witness ==
    /\ poll.pc = "done"
    /\ poll.fetches = 2
    /\ ~poll.execution.finished
    /\ poll.execution.status = "error"
    /\ poll.execution.stoppedAt
    /\ ~poll.result.success


\* the call is in wait mode and has resolved its execution id
WaitResolved ==
    /\ ~call.streaming
    /\ shouldWait(call)
    /\ isAsyncResponse(call.data)
    /\ call.executionId # ""

\* C21: in wait mode with a resolved execution id, when the remaining budget
\* (timeout minus the time elapsed since the call started) is not positive the
\* call returns a failure Result at once: the poller is not invoked and no
\* status fetch is made.
C21_NoBudgetFailsFast ==
    (WaitResolved /\ call.remainingTimeout <= 0)
        => /\ call.pc = "done"
           /\ ~call.result.success
           /\ call.result.error =
                "Insufficient time remaining to wait for workflow completion"
           /\ \A i \in DOMAIN call.events : call.events[i] # "pollExecutionStatus"
           /\ poll = NoPoll

\* the lookup used up the budget before it found the id
C21_Witness ==
    /\ WaitResolved
    /\ call.pc = "done"
    /\ call.events = <<"fetch", "findExecutionViaApi">>
    /\ clock - call.startTime >= call.timeout
    /\ call.remainingTimeout <= 0
    /\ ~call.result.success


\* the non-empty execution ids the response yields by itself: the header,
\* and in the body the top-level executionId and id, the nested ones and the
\* deep search
LocalIds ==
    ({call.headerId}
        \cup {call.data.ids[f].s : f \in {f \in {"executionId", "id",
                  "nestedExecutionId", "nestedId"} : call.data.ids[f].t = "string"}}
        \cup {deepSearchExecutionId(call.data.ids)}) \ {""}

LookedUp == \E i \in DOMAIN call.events : call.events[i] = "findExecutionViaApi"

\* C22: when the header or the body of the webhook's response yields an
\* execution id (header, top-level executionId or id, nested data, deep
\* search) the call resolves it and sends no request to the execution-listing
\* endpoint; the lookup is made only when every local strategy found nothing.
C22_LookupOnlyWithoutLocalId ==
    call.pc \notin {"idle", "webhook"}
        => /\ LocalIds # {} => ~LookedUp /\ call.executionId \in LocalIds
           /\ LookedUp => LocalIds = {}

\* the body holds executionId: "" and id: "abc", and the lookup was made
C22_Witness ==
    /\ LookedUp
    /\ call.data.ids.executionId = JStr("")
    /\ call.data.ids.id = JStr("abc")
    /\ call.headerId = ""


\* the number of webhook requests the call has made
Requests == Len(SelectSeq(call.events, LAMBDA x : x = "fetch"))

\* C23: when the timeout aborts the webhook request the call returns a
\* failure Result with the timeout message, which differs from the message of
\* a network error; every call makes exactly one webhook request.
C23_TimeoutIsDistinguished ==
    /\ call.pc # "idle" => Requests = 1
    /\ (call.pc = "done" /\ call.settled = "aborted")
          => /\ ~call.result.success
             /\ call.result.error =
                  "Request timeout - workflow took too long to respond"
    /\ (call.pc = "done" /\ call.settled \in {"rejected", "thrown"})
          => /\ ~call.result.success
             /\ call.result.error # ""
             /\ call.result.error #
                  "Request timeout - workflow took too long to respond"

\* the request was still pending when the timeout came
C23_Witness ==
    /\ call.pc = "done"
    /\ call.settled = "aborted"
    /\ clock - call.startTime = call.timeout
    /\ call.events = <<"fetch">>
    /\ call.result.error = "Request timeout - workflow took too long to respond"


\* C24: callWebhook never throws. Whatever the webhook request, the response
\* body, the lookup, the status fetches and the streaming callbacks do
\* (reject, be no JSON, fail, throw), the call is never left by an exception,
\* and when it has returned it has returned a Result: success without an
\* error, or a failure.
C24_NeverThrows ==
    /\ call.pc \in {"idle", "webhook", "lookup", "polling", "done"}
    /\ call.pc = "done"
          => /\ call.result # NoResult
             /\ call.result.success => call.result.error = ""
             /\ call.settled \in {"aborted", "rejected", "thrown", "not ok"}
                   => ~call.result.success

\* fetch rejected with a value that is no Error
C24_Witness ==
    /\ call.pc = "done"
    /\ call.settled = "thrown"
    /\ call.result = Result(FALSE, "Unknown error occurred", "", "", FALSE, "")


\* the three grounds on which the sweep removes a tracked execution
CompletedExpired(e) ==
    /\ executionMetadata[e].isCompleted
    /\ now - executionMetadata[e].completedAt > COMPLETED_EXECUTION_TTL_MS
ActiveExpired(e) ==
    /\ ~executionMetadata[e].isCompleted
    /\ now - executionMetadata[e].lastAccessTime > ACTIVE_EXECUTION_TTL_MS
Abandoned(e) ==
    /\ Registered({e}) = {}
    /\ now - executionMetadata[e].lastUpdateTime > COMPLETED_EXECUTION_TTL_MS

\* C25: a sweep pass removes a tracked execution exactly when it is completed
\* for more than the completed TTL, or not completed and not accessed for more
\* than the active TTL, or without connections and without update for more
\* than the completed TTL; what it removes loses its connections, its history
\* and its metadata in the same pass, and nothing else changes.
C25_SweepRemovesExactlyExpired ==
    [][Sweep => \A e \in DOMAIN executionMetadata :
                    LET expired == CompletedExpired(e) \/ ActiveExpired(e)
                                       \/ Abandoned(e)
                    IN IF expired
                       THEN /\ e \notin DOMAIN executionMetadata'
                            /\ e \notin DOMAIN updateHistory'
                            /\ e \notin DOMAIN connections'
                       ELSE /\ executionMetadata'[e] = executionMetadata[e]
                            /\ Has(updateHistory, e) =>
                                   /\ Has(updateHistory', e)
                                   /\ updateHistory'[e] = updateHistory[e]
                            /\ Has(connections, e) =>
                                   /\ Has(connections', e)
                                   /\ connections'[e] = connections[e]]_vars

\* E1 was swept while it had no connection, one hour and a bit after its only
\* update, long before the active TTL
C25_Witness ==
    /\ Has(baseAt, "E1")
    /\ baseAt["E1"] = Len(accepted)
    /\ Len(accepted) = 1
    /\ accepted[1].status = JStr("in_progress")
    /\ ~Has(executionMetadata, "E1")
    /\ ~Has(updateHistory, "E1")
    /\ now - accepted[1].timestamp.n = COMPLETED_EXECUTION_TTL_MS + 1


\* C26: every execution that has a registered connection, or whose metadata
\* the sweep has not removed, is in the listing of tracked executions that
\* getTrackedExecutions, getStats and the health endpoint return.
C26_TrackedListingIsComplete ==
    \A e \in (DOMAIN connections) \cup (DOMAIN executionMetadata) :
        (Registered({e}) # {} \/ Has(executionMetadata, e))
            => /\ e \in getTrackedExecutions(Store)
               /\ e \in getStats(Store).executionIds

\* a request is attached to an execution that has metadata and no update yet,
\* and the listing is empty
C26_Witness ==
    /\ \E c \in Connections :
          /\ connState[c] = "attached"
          /\ c \in Registered({connKey[c]})
          /\ Has(executionMetadata, connKey[c])
          /\ connKey[c] \notin getTrackedExecutions(Store)
    /\ getStats(Store).activeConnections >= 1
    /\ getStats(Store).executionIds = {}


\* C27: an execution whose history keeps being read, each read less than the
\* shortest TTL after the access before it, is not removed by the sweep,
\* completed or not, with or without connections.
C27_ReadKeepsAlive ==
    [][Sweep => \A e \in DOMAIN executionMetadata :
                    /\ e \in DOMAIN executionMetadata'
                    /\ Has(updateHistory, e) => Has(updateHistory', e)]_vars

\* E1 is gone after a sweep although getHistory("E1") returned its one update
\* half a TTL before, itself half a TTL after the update was accepted
C27_Witness ==
    /\ held.executionId = "E1"
    /\ held.stored
    /\ Len(held.returned) = 1
    /\ held.returned[1].timestamp.n < now
    /\ ~Has(executionMetadata, "E1")
    /\ ~Has(updateHistory, "E1")
    /\ Has(baseAt, "E1")
    /\ baseAt["E1"] = Len(accepted)
    /\ ticks = 2


\* the array getHistory returned is still the one in the map: the key had a
\* history at the call and has not been removed since
HeldIsStored ==
    /\ held.stored
    /\ Has(updateHistory, held.executionId)
    /\ BaseOf(held.executionId) = held.base

\* C28: what getHistory returned is a read-only snapshot: an addUpdate after
\* the call does not change the contents of the array the caller holds.
C28_HistoryIsSnapshot ==
    HeldIsStored => updateHistory[held.executionId] = held.returned

\* the caller was handed the array with one update and the array it holds now
\* has two
C28_Witness ==
    /\ HeldIsStored
    /\ Len(held.returned) = 1
    /\ Len(updateHistory[held.executionId]) = 2
    /\ updateHistory[held.executionId][1] = held.returned[1]


\* the four members of StreamUpdate["status"]
StatusNames == {JStr("in_progress"), JStr("completed"), JStr("error"), JStr("info")}

WellFormed(update) ==
    /\ update.status \in StatusNames
    /\ update.stage.t = "string"
    /\ update.message.t = "string"
    /\ update.timestamp.t = "string"
    /\ update.data.kind = "object"

\* C29: every update the Store holds and every update written to a
\* connection has a status among in_progress, completed, error and info, a
\* string stage, a string message, a timestamp and an object as data,
\* whatever the accepted payload was.
C29_StoredUpdatesAreWellFormed ==
    /\ \A e \in DOMAIN updateHistory : \A i \in DOMAIN updateHistory[e] :
            WellFormed(updateHistory[e][i])
    /\ \A c \in DOMAIN sink : \A i \in DOMAIN sink[c] :
            sink[c][i].type = "update" => WellFormed(sink[c][i].update)

\* the POST was answered 200 and the update stored for it has a status that
\* is none of the four, with every absent field replaced by its default
C29_Witness ==
    /\ response.status = 200
    /\ Len(accepted) = 1
    /\ accepted[1].status \notin StatusNames
    /\ accepted[1].stage = JStr("unknown")
    /\ accepted[1].message = JStr("")
    /\ accepted[1].data = EmptyObject
    /\ updateHistory[accepted[1].executionId] = <<accepted[1]>>
    /\ \E c \in DOMAIN sink : \E i \in DOMAIN sink[c] :
            sink[c][i] = UpdateFrame(accepted[1])


\* C30: every failure Result returned by pollExecutionStatus, or by callWebhook
\* in wait mode once the execution id is resolved (remote error, cancellation,
\* poll timeout, insufficient budget), has a non-empty error string and that
\* execution id.
C30_FailureNamesExecution ==
    /\ (poll.pc = "done" /\ ~poll.result.success)
          => /\ poll.result.error # ""
             /\ poll.result.executionId = poll.executionId
    /\ (WaitResolved /\ call.pc = "done" /\ ~call.result.success)
          => /\ call.result.error # ""
             /\ call.result.executionId = call.executionId

\* the poller asked the status endpoint, ran out of time, and callWebhook
\* returned its timeout failure, which names no execution
C30_Witness ==
    /\ WaitResolved
    /\ call.pc = "done"
    /\ call.events[Len(call.events)] = "pollExecutionStatus"
    /\ poll.pc = "done"
    /\ poll.fetches > 0
    /\ ~call.result.success
    /\ call.result = poll.result
    /\ call.result.error # ""
    /\ call.executionId # ""
    /\ call.result.executionId = ""


\* the poller returned on an error record that the status endpoint answered
ReturnedOnError ==
    /\ poll.pc = "done"
    /\ poll.fetches > 0
    /\ poll.execution.found
    /\ poll.execution.status = "error"
    /\ isActuallyFinished(poll.execution)

\* C31: on a terminal error record pollExecutionStatus returns as error the
\* nested data.error.error.message when it is present, otherwise
\* data.error.message, otherwise the templated message.
C31_DeepestMessageFirst ==
    ReturnedOnError
        => poll.result.error =
              IF poll.execution.nested # "" THEN poll.execution.nested
              ELSE IF poll.execution.message # "" THEN poll.execution.message
              ELSE "Workflow execution failed: error"

\* the record carries both messages and the Result has the outer one
C31_Witness ==
    /\ ReturnedOnError
    /\ poll.execution.message = "node failed"
    /\ poll.execution.nested = "cause"
    /\ ~poll.result.success
    /\ poll.result.error = "node failed"


\* the attempts begun: one timer each
Attempts == Len(lookup.waits)

LookupBounded ==
    /\ (lookup.pc # "idle" /\ ~lookup.hasApiKey)
          => /\ lookup.pc = "done"
             /\ lookup.result = ""
             /\ lookup.requests = 0
             /\ Attempts = 0
    /\ Attempts <= (IF lookup.workflowId # "" THEN 5 ELSE 3)
    /\ lookup.requests <= (IF lookup.workflowId # "" THEN 2 ELSE 1) * Attempts
    /\ \A i \in DOMAIN lookup.waits : lookup.waits[i] = 1000 * i
    /\ lookup.pc = "listing" => Attempts = lookup.attempt + 1
    /\ (lookup.pc = "done" /\ lookup.result # "")
          => /\ Attempts = lookup.attempt + 1
             /\ lookup.response.outcome = "ok"
             /\ \E i \in DOMAIN lookup.response.data :
                    lookup.response.data[i].id = lookup.result
    /\ (lookup.pc = "done" /\ lookup.hasApiKey /\ lookup.result = "")
          => Attempts = (IF lookup.workflowId # "" THEN 5 ELSE 3)

\* C32: findExecutionViaApi makes no request and returns null without an API
\* key; with one it makes at most 5 attempts when the workflowId is known and
\* at most 3 when it is not, sleeps 1000 ms times the attempt number before
\* each attempt, returns at the first attempt that finds an execution, returns
\* null after the last attempt, and always returns.
C32_LookupIsBounded ==
    /\ []LookupBounded
    /\ (lookup.pc # "idle") ~> (lookup.pc = "done")

\* five attempts of two requests each found nothing
C32_Witness ==
    /\ lookup.pc = "done"
    /\ lookup.hasApiKey
    /\ lookup.workflowId = "wf"
    /\ lookup.result = ""
    /\ lookup.waits = <<1000, 2000, 3000, 4000, 5000>>
    /\ lookup.requests = 10


\* the listed execution the lookup's result names
Found == {x \in {lookup.response.data[i] : i \in DOMAIN lookup.response.data} :
            x.id = lookup.result}

LookupFound == lookup.pc = "done" /\ lookup.result # ""

\* C33: when the workflowId is known, the id the lookup returns is that of an
\* execution of this workflow, never of another one.
C33_ResultIsOfWorkflow ==
    (LookupFound /\ lookup.workflowId # "")
        => \A x \in Found : x.workflowId = lookup.workflowId

\* the unfiltered listing held no execution of the workflow and the lookup
\* returned the id of another workflow's execution
C33_Witness ==
    /\ LookupFound
    /\ lookup.workflowId = "wf"
    /\ ~lookup.isFiltered
    /\ \A i \in DOMAIN lookup.response.data : lookup.response.data[i].workflowId = "other"
    /\ \E x \in Found : x.workflowId = "other"


\* the executions of the last listing that started in the lookup window
InWindow ==
    {x \in {lookup.response.data[i] : i \in DOMAIN lookup.response.data} :
        x.startedAt >= lookup.startTime - EXECUTION_LOOKUP_BUFFER_MS}

Latest(candidates) == {x \in candidates : \A y \in candidates : y.startedAt <= x.startedAt}

\* the result is a most recently started unfinished candidate, or a most
\* recently started candidate when all of them are finished
IsBestOf(candidates) ==
    LET unfinished == {x \in candidates : ~x.finished}
    IN \E x \in Latest(IF unfinished # {} THEN unfinished ELSE candidates) :
            x.id = lookup.result

\* C34: among the listed executions started at or after the call's start time
\* minus 10 s (those of the workflow, or all of them, when the workflowId is
\* known) the lookup returns the most recently started unfinished one, and the
\* most recently started finished one only when none is unfinished; it never
\* returns one that started before the window.
C34_PrefersLatestUnfinished ==
    LookupFound
        => \/ IsBestOf(InWindow)
           \/ /\ lookup.workflowId # ""
              /\ IsBestOf({x \in InWindow : x.workflowId = lookup.workflowId})

\* both listed executions started in the window and are of another workflow;
\* the later one is finished, the earlier one still runs, and the lookup
\* returned the finished one
C34_Witness ==
    /\ LookupFound
    /\ lookup.workflowId = "wf"
    /\ Len(lookup.response.data) = 2
    /\ Cardinality(InWindow) = 2
    /\ \E x, y \in InWindow :
          /\ x.workflowId = "other" /\ y.workflowId = "other"
          /\ x.finished /\ ~y.finished
          /\ x.startedAt > y.startedAt
          /\ lookup.result = x.id


\* C35: once an execution's metadata is completed, every Store operation
\* (addUpdate, addConnection, removeConnection, getHistory, broadcast,
\* markCompleted) that leaves the entry in place leaves isCompleted true and
\* completedAt as it was.
C35_CompletionIsStamped ==
    [][\A e \in DOMAIN executionMetadata :
          (executionMetadata[e].isCompleted /\ e \in DOMAIN executionMetadata')
              => /\ executionMetadata'[e].isCompleted
                 /\ executionMetadata'[e].completedAt = executionMetadata[e].completedAt]_vars

\* E1 was completed by its only update and never removed since, and its
\* completedAt is later than that update
C35_Witness ==
    /\ Len(accepted) = 1
    /\ accepted[1].executionId = "E1"
    /\ accepted[1].status = JStr("completed")
    /\ ~Has(baseAt, "E1")
    /\ Has(executionMetadata, "E1")
    /\ executionMetadata["E1"].isCompleted
    /\ executionMetadata["E1"].completedAt > executionMetadata["E1"].lastUpdateTime


\* the keys no handler and no method other than getHistory was called with
Untouched == {"E2", "default"}

\* C36: every key with a history entry or a connection set has a metadata
\* entry, no connection set in the map is empty, and getHistory on a key that
\* was never touched creates no history, metadata or connection entry.
C36_MetadataCoversKeys ==
    /\ (DOMAIN updateHistory \cup DOMAIN connections) \subseteq DOMAIN executionMetadata
    /\ \A e \in DOMAIN connections : connections[e] # {}
    /\ Untouched \cap (DOMAIN updateHistory \cup DOMAIN connections
                          \cup DOMAIN executionMetadata) = {}

\* getHistory("E2") returned an array that is not in the map, and
\* E1, removed or cleared once before, has a history, a connection and
\* metadata again
C36_Witness ==
    /\ held.executionId = "E2"
    /\ ~held.stored
    /\ held.returned = << >>
    /\ Has(baseAt, "E1")
    /\ Has(updateHistory, "E1")
    /\ Has(connections, "E1")
    /\ Has(executionMetadata, "E1")


\* an error event of an EventSource, or the close event of a WebSocket that
\* the client did not close itself
TransportFailure ==
    \E t \in DOMAIN transports :
        \/ \E retrying \in BOOLEAN : SseError(t, retrying)
        \/ \E withError \in BOOLEAN :
              transports[t].state # "closing" /\ WsClose(t, withError)

\* C37: each transport failure (a connection attempt that fails, or an
\* established connection that drops) schedules exactly one reconnect timer
\* and adds exactly one to the reconnect attempt counter, for the EventSource
\* and for the WebSocket, as long as the counter is below its maximum.
C37_OneRetryPerFailure ==
    [][(TransportFailure /\ reconnectAttempts < maxReconnectAttempts)
          => /\ Len(timers') = Len(timers) + 1
             /\ reconnectAttempts' = reconnectAttempts + 1]_vars

\* the first WebSocket failed before it opened: error, then close; two timers
\* are pending and the counter is 2
C37_Witness ==
    /\ connectionType = "websocket"
    /\ failures = 1
    /\ Len(transports) = 1
    /\ transports[1].state = "closed"
    /\ ~isConnected
    /\ reconnectAttempts = 2
    /\ timers = <<1000, 2000>>


\* C38: after disconnect(), and until subscribe() or connect() is called
\* again, the client stays disconnected without subscriptions: no reconnect
\* timer is scheduled and no transport is constructed, also when disconnect()
\* was called during a connection attempt or with a reconnect timer pending.
C38_DisconnectIsFinal ==
    [][(disconnected /\ disconnected')
          => /\ subscriptions' = EmptyMap
             /\ ~isConnected'
             /\ Len(transports') = Len(transports)
             /\ Len(timers') <= Len(timers)
             /\ reconnectAttempts' <= reconnectAttempts]_vars

\* disconnect() closed the WebSocket; its close event scheduled a
\* reconnect, the timer fired, and a second WebSocket is connecting with
\* nobody subscribed
C38_Witness ==
    /\ disconnected
    /\ connectionType = "websocket"
    /\ subscriptions = EmptyMap
    /\ failures = 0
    /\ Len(transports) = 2
    /\ transports[1].state = "closed"
    /\ transports[2].state = "connecting"
    /\ isConnecting
    /\ timers = << >>


TerminalCallbacks == {"onComplete", "onError"}

\* in the callbacks invoked for one registration a terminal callback, if any,
\* is the last one
EndsAtTerminal(names) ==
    \A i \in DOMAIN names : names[i] \in TerminalCallbacks => i = Len(names)

\* C39: for one subscribe(X, callbacks) registration at most one terminal
\* callback (onComplete or onError) is ever invoked, and once a terminal update
\* for X has been dispatched no later update invokes a callback of that
\* registration: the terminal update removes it, and it comes back only by
\* subscribe.
C39_OneTerminalCallback ==
    /\ [](\A e \in DOMAIN dispatched : EndsAtTerminal(dispatched[e]))
    /\ [][\A t \in DOMAIN transports, u \in ClientUpdates :
            Receive(t, u) =>
               /\ u.status \in {"completed", "error"}
                     => ~Has(subscriptions', u.executionId)
               /\ ~Has(subscriptions, u.executionId)
                     => invoked' = << >> /\ dispatched' = dispatched]_vars

\* X got its onUpdate and its onComplete, is unsubscribed, and the update
\* received after that invoked nothing
C39_Witness ==
    /\ Has(dispatched, "X")
    /\ dispatched["X"] = <<"onUpdate", "onComplete">>
    /\ ~Has(subscriptions, "X")
    /\ received = 2
    /\ invoked = << >>


TimeoutFailure ==
    Result(FALSE, "Workflow execution timeout - workflow took too long to complete",
           "", "", FALSE, "")

\* the record is finished, or stopped with an error or a cancellation, and
\* its status is one of the three the poller returns on
TerminalRecord(execution) ==
    /\ execution.found
    /\ \/ execution.finished
       \/ execution.status \in {"error", "canceled"} /\ execution.stoppedAt
    /\ execution.status \in {"success", "error", "canceled"}

PollReturnsOnTerminalOnly ==
    /\ (poll.pc = "done" /\ poll.result # TimeoutFailure)
          => /\ poll.fetches > 0
             /\ TerminalRecord(poll.execution)
             /\ poll.result.success <=> poll.execution.status = "success"
    /\ (poll.pc = "done" /\ poll.result = TimeoutFailure)
          => clock - poll.startTime >= poll.timeout
    /\ (poll.pc = "fetching" /\ poll.fetches > 1) => ~TerminalRecord(poll.execution)

\* C40: pollExecutionStatus returns a success or a remote-failure Result only
\* on a record that is finished (or stopped) with status success, error or
\* canceled; on any other record it sleeps the poll interval and fetches
\* again, returns the timeout failure once the deadline has passed, and so
\* always returns.
C40_PollTerminates ==
    /\ []PollReturnsOnTerminalOnly
    /\ [][(poll.pc = "fetching" /\ poll'.pc = "fetching" /\ poll' # poll)
            => /\ poll'.fetches = poll.fetches + 1
               /\ poll'.fetchStart >= poll.fetchStart + getPollInterval]_vars
    /\ (poll.pc = "fetching") ~> (poll.pc = "done")

\* two fetches, the last record finished: true with status running, and the
\* poller returned the timeout failure
C40_Witness ==
    /\ poll.pc = "done"
    /\ poll.fetches = 2
    /\ poll.execution.found
    /\ poll.execution.finished
    /\ poll.execution.status = "running"
    /\ poll.result = TimeoutFailure

====
